---- MODULE Spec2Model ----
(***************************************************************************)
(* fukomaster: device-lifecycle and gesture-translation engine.            *)
(*                                                                         *)
(* The model follows src/src/swipe.rs (simulate, on_device_event,          *)
(* on_input_event, add_device) and src/src/states.rs (State, Normal,       *)
(* Swiping, Fingers).  One step of the model is one turn of the loop in    *)
(* simulate: either one hotplug notification or one result of one source's *)
(* next_event() is handled, to completion.                                 *)
(*                                                                         *)
(* Calls into the evdev library (Device::open, into_event_stream, grab,    *)
(* ungrab, VirtualDevice::emit) can succeed or fail: their outcome is a    *)
(* nondeterministic input of the step that makes the call.                 *)
(***************************************************************************)
EXTENDS Integers, Sequences, FiniteSets, TLC

(***************************************************************************)
(* Event codes of the kernel input subsystem used by the engine.           *)
(***************************************************************************)
ABS_MT_SLOT == 47
ABS_MT_POSITION_X == 53
ABS_MT_POSITION_Y == 54
ABS_MT_TRACKING_ID == 57
BTN_TOOL_FINGER == 325
BTN_TOOL_QUINTTAP == 328
BTN_TOUCH == 330
BTN_TOOL_DOUBLETAP == 333
BTN_TOOL_TRIPLETAP == 334
BTN_TOOL_QUADTAP == 335

\* Option<T>: None is the empty sequence, Some(x) the sequence of x alone.
None == <<>>
Some(x) == <<x>>

(***************************************************************************)
(* Bounds of the model.                                                     *)
(***************************************************************************)
\* Relative-motion events handled in one session.
MaxMoves == 2
\* Notifications that can wait in the hotplug channel.
MaxQueue == 1

(***************************************************************************)
(* i32 and f32 arithmetic, as the casts and operators of Swiping::update   *)
(* compute it.                                                             *)
(***************************************************************************)
I32Max == 2147483647
I32Min == -2147483647 - 1

Abs(n) == IF n < 0 THEN -n ELSE n
Sign(n) == IF n < 0 THEN -1 ELSE 1

\* floor(log2(n)) for n >= 1.
RECURSIVE Log2Floor(_)
Log2Floor(n) == IF n < 2 THEN 0 ELSE 1 + Log2Floor(n \div 2)

\* An integer of any size is held as [hi, lo], which stands for
\* hi * 2^16 + lo with 0 <= lo < 2^16.
Big(n) == [hi |-> n \div 65536, lo |-> n % 65536]
BigAdd(s, n) ==
    LET lo == s.lo + (n % 65536)
    IN  [hi |-> s.hi + (n \div 65536) + (lo \div 65536), lo |-> lo % 65536]
BigNeg(s) ==
    IF s.lo = 0 THEN [hi |-> -s.hi, lo |-> 0] ELSE [hi |-> -s.hi - 1, lo |-> 65536 - s.lo]
BigInI32(s) == s.hi \in -32768..32767
BigToInt(s) == s.hi * 65536 + s.lo

\* `self.x += dx` on an i32: a sum outside the range panics in a build with
\* overflow checks and wraps (two's complement) in a build without them.
add_i32(a, b, wrap) ==
    IF b > 0 /\ a > I32Max - b
    THEN IF wrap THEN [panic |-> FALSE, value |-> (a - I32Max - 1) + (b - I32Max - 1)]
         ELSE [panic |-> TRUE, value |-> a]
    ELSE IF b < 0 /\ a < I32Min - b
    THEN IF wrap THEN [panic |-> FALSE, value |-> (a + I32Max + 1) + (b + I32Max + 1)]
         ELSE [panic |-> TRUE, value |-> a]
    ELSE [panic |-> FALSE, value |-> a + b]

\* A single-precision value is [m, e], which stands for m * 2^e; m has at
\* most 24 significant bits.  Quotient v / u rounded to the nearest integer,
\* ties to even, from the floor quotient q and the remainder r.
RoundQuotient(q, r, u) ==
    IF 2 * r < u THEN q
    ELSE IF 2 * r > u THEN q + 1
    ELSE IF q % 2 = 0 THEN q ELSE q + 1

\* The single-precision value nearest to m * 2^e, for |m| < 2^30.
RoundSig(m, e) ==
    IF Abs(m) < 16777216 THEN [m |-> m, e |-> e]
    ELSE LET s == Log2Floor(Abs(m)) - 23
             u == 2 ^ s
         IN  [m |-> Sign(m) * RoundQuotient(Abs(m) \div u, Abs(m) % u, u), e |-> e + s]

\* The single-precision value nearest to an integer of magnitude below 2^40.
BigToF32(v) ==
    LET a == IF v.hi < 0 THEN BigNeg(v) ELSE v
        sign == IF v.hi < 0 THEN -1 ELSE 1
    IN  IF a.hi < 256 THEN [m |-> sign * BigToInt(a), e |-> 0]
        ELSE LET s == Log2Floor(a.hi) + 16 - 23
                 u == 2 ^ s
                 q == a.hi * (2 ^ (16 - s)) + (a.lo \div u)
             IN  [m |-> sign * RoundQuotient(q, a.lo % u, u), e |-> s]

\* `v as f32` for an i32 v.
I32ToF32(v) == BigToF32(Big(v))

\* `f * mult`.  A multiplier is held in halves (2 stands for 1.0) and is at
\* most 2.0 in magnitude.
MulF32(f, mult) == RoundSig(f.m * mult, f.e - 1)

\* `f as i32`: truncation toward zero, saturating at the ends of the range.
F32ToI32(f) ==
    IF f.m = 0 THEN 0
    ELSE IF f.e < 0 THEN Sign(f.m) * (Abs(f.m) \div (2 ^ (-f.e)))
    ELSE IF Log2Floor(Abs(f.m)) + 1 + f.e > 31
         THEN (IF f.m < 0 THEN I32Min ELSE I32Max)
         ELSE f.m * (2 ^ f.e)

\* ((v as f32) * mult) as i32
Scale(v, mult) == F32ToI32(MulF32(I32ToF32(v), mult))

(***************************************************************************)
(* Paths.  A PathBuf is a directory and a file name; the file name is a    *)
(* sequence of characters, empty when the path has none (the root, or a    *)
(* path ending in "..").                                                   *)
(***************************************************************************)
DEV_INPUT == "/dev/input"
DEVICE_PREFIX == <<"e", "v", "e", "n", "t">>

Event3 == [dir |-> DEV_INPUT, name |-> DEVICE_PREFIX \o <<"3">>]
Event4 == [dir |-> DEV_INPUT, name |-> DEVICE_PREFIX \o <<"4">>]
\* The node under which the host exposes the synthetic device.
Event9 == [dir |-> DEV_INPUT, name |-> DEVICE_PREFIX \o <<"9">>]
Mouse0 == [dir |-> DEV_INPUT, name |-> <<"m", "o", "u", "s", "e", "0">>]
Root == [dir |-> "/", name |-> <<>>]

\* The paths the watcher reports.
Paths == <<Event3, Event4, Event9, Mouse0, Root>>

\* The elements of a list.
Range(list) == {list[i] : i \in 1..Len(list)}

\* Path::file_name
file_name(path) == IF path.name = <<>> THEN None ELSE Some(path.name)

\* str::starts_with
starts_with(s, prefix) ==
    /\ Len(s) >= Len(prefix)
    /\ SubSeq(s, 1, Len(prefix)) = prefix

\* slice::contains
contains(list, x) == \E i \in 1..Len(list) : list[i] = x

\* The dev nodes collected by simulate from sink.enumerate_dev_nodes().
sink_dev_nodes == <<Event9>>

(***************************************************************************)
(* Configurations (struct Args, frozen before simulate runs).  Multipliers *)
(* are in halves: 2 stands for 1.0.                                        *)
(***************************************************************************)
\* The defaults of Args with every finger count given a key of its own.
CfgGrab ==
    [input_allow |-> <<>>, input_deny |-> <<>>,
     swipe_2 |-> Some(275), swipe_3 |-> Some(277), swipe_4 |-> Some(276), swipe_5 |-> Some(278),
     x_mult |-> 2, y_mult |-> 2, grab |-> TRUE]

\* Allow and deny lists that overlap, the synthetic device's node on the
\* allow list, --no-grab, and multipliers 2.0 and 0.5.
CfgLists ==
    [input_allow |-> <<Event3, Event4, Event9>>, input_deny |-> <<Event4>>,
     swipe_2 |-> None, swipe_3 |-> Some(277), swipe_4 |-> None, swipe_5 |-> None,
     x_mult |-> 4, y_mult |-> 1, grab |-> FALSE]

\* One key given to two finger counts, multipliers 1.5 and -1.0.
CfgShared ==
    [input_allow |-> <<>>, input_deny |-> <<Mouse0>>,
     swipe_2 |-> Some(277), swipe_3 |-> None, swipe_4 |-> Some(276), swipe_5 |-> Some(277),
     x_mult |-> 3, y_mult |-> -2, grab |-> TRUE]

Configs == {CfgGrab, CfgLists, CfgShared}

(***************************************************************************)
(* Fingers                                                                 *)
(***************************************************************************)
FingersValues == <<"Two", "Three", "Four", "Five">>

count(fingers) ==
    CASE fingers = "Two" -> 2
      [] fingers = "Three" -> 3
      [] fingers = "Four" -> 4
      [] fingers = "Five" -> 5

btn_tool(fingers) ==
    CASE fingers = "Two" -> BTN_TOOL_DOUBLETAP
      [] fingers = "Three" -> BTN_TOOL_TRIPLETAP
      [] fingers = "Four" -> BTN_TOOL_QUADTAP
      [] fingers = "Five" -> BTN_TOOL_QUINTTAP

(***************************************************************************)
(* Events read from the sources.  kind is InputEvent::kind() without its   *)
(* payload, which is code.                                                 *)
(***************************************************************************)
RelativeAxisType == [REL_X |-> 0, REL_Y |-> 1, REL_WHEEL |-> 8]

KeyInput(code, value) == [kind |-> "Key", code |-> code, value |-> value]
RelInput(axis, value) == [kind |-> "RelAxis", code |-> axis, value |-> value]
SynInput == [kind |-> "Synchronization", code |-> 0, value |-> 0]

(***************************************************************************)
(* Events written to the synthetic device.                                 *)
(***************************************************************************)
abs_event(axis_type, value) == [type |-> "ABSOLUTE", code |-> axis_type, value |-> value]
key_event(key, value) == [type |-> "KEY", code |-> key, value |-> value]

\* (0..n).flat_map(f), where f yields k events for each finger.
flat_map(n, k, f(_, _)) ==
    [i \in 1..(n * k) |-> f((i - 1) \div k, ((i - 1) % k) + 1)]

\* start_events with the two buttons chained in the other order.
start_events_tool_first(fingers) ==
    LET per(finger, j) ==
            CASE j = 1 -> abs_event(ABS_MT_SLOT, finger)
              [] j = 2 -> abs_event(ABS_MT_TRACKING_ID, finger)
              [] j = 3 -> abs_event(ABS_MT_POSITION_X, 0)
              [] j = 4 -> abs_event(ABS_MT_POSITION_Y, 0)
    IN  flat_map(count(fingers), 4, per)
            \o <<key_event(btn_tool(fingers), 1), key_event(BTN_TOUCH, 1)>>

\* start_events with the slots counted from one.
start_events_from_one(fingers) ==
    LET per(finger, j) ==
            CASE j = 1 -> abs_event(ABS_MT_SLOT, finger + 1)
              [] j = 2 -> abs_event(ABS_MT_TRACKING_ID, finger + 1)
              [] j = 3 -> abs_event(ABS_MT_POSITION_X, 0)
              [] j = 4 -> abs_event(ABS_MT_POSITION_Y, 0)
    IN  flat_map(count(fingers), 4, per)
            \o <<key_event(BTN_TOUCH, 1), key_event(btn_tool(fingers), 1)>>

\* The batch built by Normal::start_swiping.
start_events(fingers) ==
    LET per(finger, j) ==
            CASE j = 1 -> abs_event(ABS_MT_SLOT, finger)
              [] j = 2 -> abs_event(ABS_MT_TRACKING_ID, finger)
              [] j = 3 -> abs_event(ABS_MT_POSITION_X, 0)
              [] j = 4 -> abs_event(ABS_MT_POSITION_Y, 0)
    IN  flat_map(count(fingers), 4, per)
            \o <<key_event(BTN_TOUCH, 1), key_event(btn_tool(fingers), 1)>>

\* The batch built by Swiping::update from the scaled position.
update_events(fingers, x, y) ==
    LET per(finger, j) ==
            CASE j = 1 -> abs_event(ABS_MT_SLOT, finger)
              [] j = 2 -> abs_event(ABS_MT_POSITION_X, x)
              [] j = 3 -> abs_event(ABS_MT_POSITION_Y, y)
    IN  flat_map(count(fingers), 3, per)

\* stop_events with one slot too few: the last slot is not released.
stop_events_short(fingers) ==
    LET per(finger, j) ==
            CASE j = 1 -> abs_event(ABS_MT_SLOT, finger)
              [] j = 2 -> abs_event(ABS_MT_TRACKING_ID, -1)
    IN  flat_map(count(fingers) - 1, 2, per)
            \o <<key_event(BTN_TOOL_FINGER, 0), key_event(btn_tool(fingers), 0)>>

\* The batch built by Swiping::stop.
stop_events(fingers) ==
    LET per(finger, j) ==
            CASE j = 1 -> abs_event(ABS_MT_SLOT, finger)
              [] j = 2 -> abs_event(ABS_MT_TRACKING_ID, -1)
    IN  flat_map(count(fingers), 2, per)
            \o <<key_event(BTN_TOOL_FINGER, 0), key_event(btn_tool(fingers), 0)>>

(***************************************************************************)
(* The synthetic device as its readers see it: the slot selected last, the *)
(* tracking ID of each slot and the value of each key.  emit writes a      *)
(* batch and a SYN_REPORT; the batch takes effect as one frame.            *)
(***************************************************************************)
Slots == 0..4
SinkKeys == {BTN_TOOL_FINGER, BTN_TOOL_QUINTTAP, BTN_TOUCH, BTN_TOOL_DOUBLETAP,
             BTN_TOOL_TRIPLETAP, BTN_TOOL_QUADTAP}

SinkInit == [slot |-> 0, tracking |-> [i \in Slots |-> -1], keys |-> [k \in SinkKeys |-> 0]]

write_event(s, e) ==
    IF e.type = "KEY" THEN [s EXCEPT !.keys[e.code] = e.value]
    ELSE IF e.code = ABS_MT_SLOT THEN [s EXCEPT !.slot = e.value]
    ELSE IF e.code = ABS_MT_TRACKING_ID THEN [s EXCEPT !.tracking[s.slot] = e.value]
    ELSE s

RECURSIVE write_events(_, _)
write_events(s, events) ==
    IF events = <<>> THEN s
    ELSE write_events(write_event(s, Head(events)), Tail(events))

(***************************************************************************)
(* The state of simulate.                                                  *)
(***************************************************************************)
VARIABLES
    cfg,            \* the arguments of simulate
    state,          \* State: Normal, or Swiping with its fields
    devices,        \* AHashMap<PathBuf, EventStream>: path -> the open device
    device_events,  \* the notifications waiting in the hotplug channel
    chan_open,      \* whether a sender of the hotplug channel is alive
    sink,           \* the synthetic device
    status,         \* "running", "error" (simulate returned Err) or "panic"
    calls,          \* the grab, ungrab and emit calls of the last turn, in order
    log,            \* the log lines of the last turn, in order
    hist,           \* of the current session: motion events handled, sums of the deltas
    last,           \* the last event read from a source and the source it came from,
                    \* or the notifications handled, in the specifications that record
                    \* them
    mux,            \* the multiplexer within a turn, in the specifications that
                    \* take a turn in steps: where the loop is, the sources with a
                    \* pending next_event(), the notification received, the
                    \* sources that have an event to deliver, and the number of
                    \* events the turn has handled
    startup         \* main before the loop, in the specification that starts at
                    \* the top of main: where main is, the entries under the
                    \* input directory, those enqueued, and where each
                    \* notification waiting in the channel came from

vars ==
    <<cfg, state, devices, device_events, chan_open, sink, status, calls, log, hist, last, mux, startup>>

Normal == [tag |-> "Normal"]
IsSwiping(st) == st.tag = "Swiping"

HistInit == [moves |-> 0, dx |-> Big(0), dy |-> Big(0)]

\* The top of the loop: no next_event() is pending.
MuxInit == [pc |-> "top", waits |-> {}, event |-> None, ready |-> {}, handled |-> 0]

\* main has called simulate: the entries were enqueued and the watcher runs.
StartupDone == [pc |-> "simulate", dir |-> {}, sent |-> {}, origins |-> <<>>]

\* An EventStream just opened: the device is not grabbed.
Opened == [grabbed |-> FALSE]

\* A call on a source is named by the path the source is registered under.
Call(op, path, ok) == [op |-> op, path |-> path, events |-> <<>>, ok |-> ok]
Emit(events, ok) == [op |-> "emit", path |-> Root, events |-> events, ok |-> ok]
Line(level, msg) == [level |-> level, msg |-> msg]

(***************************************************************************)
(* Normal and Swiping (states.rs).  Each operator yields the result of the *)
(* method (ok), what it leaves in the objects it was handed, and the calls *)
(* it made.  o holds the outcomes of the library calls of this turn.       *)
(***************************************************************************)
\* start_swiping without the grab of the source.
start_swiping_nograb(source_path, source, sk, trigger, fingers, grab, o) ==
    IF ~o.emit_ok
    THEN [ok |-> FALSE, panic |-> FALSE, msg |-> "failed to emit",
          state |-> Normal, source |-> source, sink |-> sk,
          calls |-> <<Emit(start_events(fingers), FALSE)>>]
    ELSE [ok |-> TRUE, panic |-> FALSE, msg |-> "",
          state |-> [tag |-> "Swiping", input_path |-> source_path,
                     fingers |-> fingers, trigger |-> trigger, x |-> 0, y |-> 0],
          source |-> source, sink |-> write_events(sk, start_events(fingers)),
          calls |-> <<Emit(start_events(fingers), TRUE)>>]

\* start_swiping with the device grabbed whatever the configuration says.
start_swiping_always_grab(source_path, source, sk, trigger, fingers, grab, o) ==
    IF ~o.grab_ok
    THEN [ok |-> FALSE, panic |-> FALSE, msg |-> "failed to grab source device",
          state |-> Normal, source |-> source, sink |-> sk,
          calls |-> <<Call("grab", source_path, FALSE)>>]
    ELSE IF ~o.emit_ok
    THEN [ok |-> FALSE, panic |-> FALSE, msg |-> "failed to emit",
          state |-> Normal, source |-> [source EXCEPT !.grabbed = TRUE], sink |-> sk,
          calls |-> <<Call("grab", source_path, TRUE), Emit(start_events(fingers), FALSE)>>]
    ELSE [ok |-> TRUE, panic |-> FALSE, msg |-> "",
          state |-> [tag |-> "Swiping", input_path |-> source_path,
                     fingers |-> fingers, trigger |-> trigger, x |-> 0, y |-> 0],
          source |-> [source EXCEPT !.grabbed = TRUE],
          sink |-> write_events(sk, start_events(fingers)),
          calls |-> <<Call("grab", source_path, TRUE), Emit(start_events(fingers), TRUE)>>]

start_swiping(source_path, source, sk, trigger, fingers, grab, o) ==
    LET grab_calls == IF grab THEN <<Call("grab", source_path, o.grab_ok)>> ELSE <<>>
        grabbed == IF grab THEN [source EXCEPT !.grabbed = TRUE] ELSE source
        events == start_events(fingers)
    IN  IF grab /\ ~o.grab_ok
        THEN [ok |-> FALSE, panic |-> FALSE, msg |-> "failed to grab source device",
              state |-> Normal, source |-> source, sink |-> sk, calls |-> grab_calls]
        ELSE IF ~o.emit_ok
        THEN [ok |-> FALSE, panic |-> FALSE, msg |-> "failed to emit",
              state |-> Normal, source |-> grabbed, sink |-> sk,
              calls |-> grab_calls \o <<Emit(events, FALSE)>>]
        ELSE [ok |-> TRUE, panic |-> FALSE, msg |-> "",
              state |-> [tag |-> "Swiping", input_path |-> source_path,
                         fingers |-> fingers, trigger |-> trigger, x |-> 0, y |-> 0],
              source |-> grabbed, sink |-> write_events(sk, events),
              calls |-> grab_calls \o <<Emit(events, TRUE)>>]

update(swiping, source, sk, dx, dy, x_mult, y_mult, o) ==
    LET nx == add_i32(swiping.x, dx, o.wrap)
        ny == add_i32(swiping.y, dy, o.wrap)
        moved == [swiping EXCEPT !.x = nx.value, !.y = ny.value]
        x == Scale(moved.x, x_mult)
        y == Scale(moved.y, y_mult)
        events == update_events(swiping.fingers, x, y)
    IN  IF nx.panic \/ ny.panic
        THEN [ok |-> FALSE, panic |-> TRUE, msg |-> "attempt to add with overflow",
              state |-> swiping, source |-> source, sink |-> sk, calls |-> <<>>]
        ELSE IF ~o.emit_ok
        THEN [ok |-> FALSE, panic |-> FALSE, msg |-> "failed to emit",
              state |-> moved, source |-> source, sink |-> sk,
              calls |-> <<Emit(events, FALSE)>>]
        ELSE [ok |-> TRUE, panic |-> FALSE, msg |-> "",
              state |-> moved, source |-> source, sink |-> write_events(sk, events),
              calls |-> <<Emit(events, TRUE)>>]

\* stop with the emission before the ungrab.
stop_emit_first(swiping, source_path, source, sk, grab, o) ==
    LET ungrab_calls == IF grab THEN <<Call("ungrab", source_path, o.ungrab_ok)>> ELSE <<>>
        released == IF grab THEN [source EXCEPT !.grabbed = FALSE] ELSE source
        events == stop_events(swiping.fingers)
    IN  IF ~o.emit_ok
        THEN [ok |-> FALSE, panic |-> FALSE, msg |-> "failed to emit",
              state |-> Normal, source |-> source, sink |-> sk,
              calls |-> <<Emit(events, FALSE)>>]
        ELSE IF grab /\ ~o.ungrab_ok
        THEN [ok |-> FALSE, panic |-> FALSE, msg |-> "failed to ungrab source device",
              state |-> Normal, source |-> source, sink |-> write_events(sk, events),
              calls |-> <<Emit(events, TRUE)>> \o ungrab_calls]
        ELSE [ok |-> TRUE, panic |-> FALSE, msg |-> "",
              state |-> Normal, source |-> released, sink |-> write_events(sk, events),
              calls |-> <<Emit(events, TRUE)>> \o ungrab_calls]

stop(swiping, source_path, source, sk, grab, o) ==
    LET ungrab_calls == IF grab THEN <<Call("ungrab", source_path, o.ungrab_ok)>> ELSE <<>>
        released == IF grab THEN [source EXCEPT !.grabbed = FALSE] ELSE source
        events == stop_events(swiping.fingers)
    IN  IF grab /\ ~o.ungrab_ok
        THEN [ok |-> FALSE, panic |-> FALSE, msg |-> "failed to ungrab source device",
              state |-> Normal, source |-> source, sink |-> sk, calls |-> ungrab_calls]
        ELSE IF ~o.emit_ok
        THEN [ok |-> FALSE, panic |-> FALSE, msg |-> "failed to emit",
              state |-> Normal, source |-> released, sink |-> sk,
              calls |-> ungrab_calls \o <<Emit(events, FALSE)>>]
        ELSE [ok |-> TRUE, panic |-> FALSE, msg |-> "",
              state |-> Normal, source |-> released, sink |-> write_events(sk, events),
              calls |-> ungrab_calls \o <<Emit(events, TRUE)>>]

(***************************************************************************)
(* add_device (swipe.rs).  res is "Ok" for Ok(Ok(device)), "Rejected" for  *)
(* Ok(Err(reason)) and "Err" for Err(error).                               *)
(***************************************************************************)
\* rejection with the allow list consulted first: a path on it is admitted
\* without a look at the deny list.
rejection_allow_first(source_path, nodes, input_allow, input_deny) ==
    IF contains(nodes, source_path)
    THEN Some("this is our own virtual device")
    ELSE IF contains(input_allow, source_path)
    THEN None
    ELSE IF contains(input_deny, source_path)
    THEN Some("device is in the deny list")
    ELSE IF input_allow # <<>>
    THEN Some("device is not in the allow list")
    ELSE None

\* rejection with the sink's own nodes checked after the allow list, which
\* admits what it names.
rejection_self_last(source_path, nodes, input_allow, input_deny) ==
    IF contains(input_deny, source_path)
    THEN Some("device is in the deny list")
    ELSE IF input_allow # <<>> /\ ~contains(input_allow, source_path)
    THEN Some("device is not in the allow list")
    ELSE IF input_allow = <<>> /\ contains(nodes, source_path)
    THEN Some("this is our own virtual device")
    ELSE None

\* The first three checks, on the path alone: the reason for a rejection, if any.
rejection(source_path, nodes, input_allow, input_deny) ==
    IF contains(nodes, source_path)
    THEN Some("this is our own virtual device")
    ELSE IF contains(input_deny, source_path)
    THEN Some("device is in the deny list")
    ELSE IF input_allow # <<>> /\ ~contains(input_allow, source_path)
    THEN Some("device is not in the allow list")
    ELSE None

\* open_and_insert with insert in place of the vacant entry: the device
\* just opened replaces the one registered.
open_and_insert_replace(source_path, devs, o) ==
    IF ~o.open_ok
    THEN [res |-> "Err", msg |-> "failed to open device file", devices |-> devs]
    ELSE IF ~o.stream_ok
    THEN [res |-> "Err", msg |-> "failed to convert device into event stream",
          devices |-> devs]
    ELSE [res |-> "Ok", msg |-> "",
          devices |-> [q \in DOMAIN devs \cup {source_path} |->
                          IF q = source_path THEN Opened ELSE devs[q]]]

\* Device::open, the entry of the map, into_event_stream and the insertion.
open_and_insert(source_path, devs, o) ==
    IF ~o.open_ok
    THEN [res |-> "Err", msg |-> "failed to open device file", devices |-> devs]
    ELSE IF source_path \in DOMAIN devs
    THEN [res |-> "Err", msg |-> "device with this file is already being tracked",
          devices |-> devs]
    ELSE IF ~o.stream_ok
    THEN [res |-> "Err", msg |-> "failed to convert device into event stream",
          devices |-> devs]
    ELSE [res |-> "Ok", msg |-> "",
          devices |-> [q \in DOMAIN devs \cup {source_path} |->
                          IF q = source_path THEN Opened ELSE devs[q]]]

\* add_device without the test of the file name's prefix.
add_device_noprefix(source_path, nodes, input_allow, input_deny, devs, o) ==
    IF rejection(source_path, nodes, input_allow, input_deny) # None
    THEN [res |-> "Rejected",
          msg |-> rejection(source_path, nodes, input_allow, input_deny)[1],
          devices |-> devs]
    ELSE IF file_name(source_path) = None
    THEN [res |-> "Err", msg |-> "device path has no file name", devices |-> devs]
    ELSE open_and_insert(source_path, devs, o)

add_device(source_path, nodes, input_allow, input_deny, devs, o) ==
    LET reason == rejection(source_path, nodes, input_allow, input_deny)
    IN  IF reason # None
        THEN [res |-> "Rejected", msg |-> reason[1], devices |-> devs]
        ELSE IF file_name(source_path) = None
        THEN [res |-> "Err", msg |-> "device path has no file name", devices |-> devs]
        ELSE IF ~starts_with(file_name(source_path)[1], DEVICE_PREFIX)
        THEN [res |-> "Rejected", msg |-> "file name does not start with event",
              devices |-> devs]
        ELSE open_and_insert(source_path, devs, o)

(***************************************************************************)
(* on_device_event and on_input_event (swipe.rs).  ok is FALSE when the    *)
(* function returns Err, which simulate returns to its caller in turn.     *)
(***************************************************************************)
Without(devs, path) == [q \in DOMAIN devs \ {path} |-> devs[q]]

\* propagate with the error of the method dropped: the handler returns Ok
\* with the state it was given.
propagate_swallow(r, st, devs, lines) ==
    [ok |-> TRUE, panic |-> r.panic, state |-> IF r.ok THEN r.state ELSE st,
     source |-> r.source, devices |-> devs, sink |-> r.sink, calls |-> r.calls,
     log |-> lines]

\* The operator ? on the result r of a method and the assignment of its value
\* to the state: an Err is returned to the caller and st stays as it was.
\* lines are the log lines the handler wrote around the call.
propagate(r, st, devs, lines) ==
    [ok |-> r.ok, panic |-> r.panic, state |-> IF r.ok THEN r.state ELSE st,
     source |-> r.source, devices |-> devs, sink |-> r.sink, calls |-> r.calls,
     log |-> lines \o (IF r.ok THEN <<>> ELSE <<Line("fatal", r.msg)>>)]

\* A handler that returns Ok(state) without a call on a device.
unchanged(st, source, devs, sk, lines) ==
    [ok |-> TRUE, panic |-> FALSE, state |-> st, source |-> source, devices |-> devs,
     sink |-> sk, calls |-> <<>>, log |-> lines]

\* The log line on_device_event writes for the result of add_device.
added_line(r) ==
    CASE r.res = "Ok" -> <<Line("info", "Tracking")>>
      [] r.res = "Rejected" -> <<Line("debug", r.msg)>>
      [] r.res = "Err" -> <<Line("warn", r.msg)>>

\* tracked with the error of add_device returned to simulate.
tracked_fatal(r, st, sk) ==
    [ok |-> r.res # "Err", panic |-> FALSE, state |-> st, source |-> None,
     devices |-> r.devices, sink |-> sk, calls |-> <<>>, log |-> added_line(r)]

tracked(r, st, sk) == unchanged(st, None, r.devices, sk, added_line(r))

\* on_device_added with the default state returned in place of the state
\* it was given.
on_device_added_reset(source_path, sk, nodes, input_allow, input_deny, devs, st, o) ==
    tracked(add_device(source_path, nodes, input_allow, input_deny, devs, o), Normal, sk)

\* The arm DeviceEvent::Added of on_device_event.
on_device_added(source_path, sk, nodes, input_allow, input_deny, devs, st, o) ==
    tracked(add_device(source_path, nodes, input_allow, input_deny, devs, o), st, sk)

\* on_device_removed without the stop of the session: the entry goes and
\* the state stays.
on_device_removed_keep(path, sk, devs, st, o) ==
    IF path \in DOMAIN devs
    THEN unchanged(st, None, Without(devs, path), sk, <<Line("info", "Untracking")>>)
    ELSE unchanged(st, None, devs, sk, <<>>)

\* on_device_removed with the grab released on the removed device.
on_device_removed_ungrab(path, sk, devs, st, o) ==
    IF path \in DOMAIN devs
    THEN IF IsSwiping(st) /\ st.input_path = path
         THEN propagate(stop(st, path, devs[path], sk, TRUE, o), st, Without(devs, path),
                        <<Line("info", "Untracking"),
                          Line("info", "Stopped swiping because the swipe device was removed")>>)
         ELSE unchanged(st, None, Without(devs, path), sk, <<Line("info", "Untracking")>>)
    ELSE unchanged(st, None, devs, sk, <<>>)

\* on_device_removed without the comparison of the paths: the removal of
\* any tracked device stops the session.
on_device_removed_any(path, sk, devs, st, o) ==
    IF path \in DOMAIN devs
    THEN IF IsSwiping(st)
         THEN propagate(stop(st, path, devs[path], sk, FALSE, o), st, Without(devs, path),
                        <<Line("info", "Untracking"),
                          Line("info", "Stopped swiping because the swipe device was removed")>>)
         ELSE unchanged(st, None, Without(devs, path), sk, <<Line("info", "Untracking")>>)
    ELSE unchanged(st, None, devs, sk, <<>>)

\* on_device_removed with the session stopped before the registry is looked
\* at: Removed for a path that is not tracked ends an open session too.
on_device_removed_untracked(path, sk, devs, st, o) ==
    IF IsSwiping(st) /\ (path \notin DOMAIN devs \/ st.input_path = path)
    THEN propagate(stop(st, path, None, sk, FALSE, o), st, Without(devs, path),
                   <<Line("info", "Stopped swiping because the swipe device was removed")>>)
    ELSE IF path \in DOMAIN devs
    THEN unchanged(st, None, Without(devs, path), sk, <<Line("info", "Untracking")>>)
    ELSE unchanged(st, None, devs, sk, <<>>)

\* on_device_removed with the entry looked up and left in the registry.
on_device_removed_leave(path, sk, devs, st, o) ==
    IF path \in DOMAIN devs
    THEN IF IsSwiping(st) /\ st.input_path = path
         THEN propagate(stop(st, path, devs[path], sk, FALSE, o), st, devs,
                        <<Line("info", "Untracking"),
                          Line("info", "Stopped swiping because the swipe device was removed")>>)
         ELSE unchanged(st, None, devs, sk, <<Line("info", "Untracking")>>)
    ELSE unchanged(st, None, devs, sk, <<>>)

\* The arm DeviceEvent::Removed of on_device_event.
on_device_removed(path, sk, devs, st, o) ==
    IF path \in DOMAIN devs
    THEN IF IsSwiping(st) /\ st.input_path = path
         THEN propagate(stop(st, path, devs[path], sk, FALSE, o), st, Without(devs, path),
                        <<Line("info", "Untracking"),
                          Line("info", "Stopped swiping because the swipe device was removed")>>)
         ELSE unchanged(st, None, Without(devs, path), sk, <<Line("info", "Untracking")>>)
    ELSE unchanged(st, None, devs, sk, <<>>)

on_device_event(event, sk, nodes, input_allow, input_deny, devs, st, o) ==
    IF event.kind = "Added"
    THEN on_device_added(event.path, sk, nodes, input_allow, input_deny, devs, st, o)
    ELSE on_device_removed(event.path, sk, devs, st, o)

\* test_start_swipe without the test of the value for a press: an
\* autorepeat of the trigger matches too.
test_start_swipe_any_value(start_info, trigger, fingers, input) ==
    IF trigger = None THEN start_info
    ELSE IF input.kind = "Key" /\ input.code = trigger[1] /\ input.value >= 1
    THEN Some([trigger |-> trigger[1], fingers |-> fingers])
    ELSE start_info

\* test_start_swipe that keeps the match it already has: the first finger
\* count configured with the key wins.
test_start_swipe_keep_first(start_info, trigger, fingers, input) ==
    IF trigger = None \/ start_info # None THEN start_info
    ELSE IF input.kind = "Key" /\ input.code = trigger[1] /\ input.value = 1
    THEN Some([trigger |-> trigger[1], fingers |-> fingers])
    ELSE start_info

\* The closure test_start_swipe: start_info is overwritten on a match.
test_start_swipe(start_info, trigger, fingers, input) ==
    IF trigger = None THEN start_info
    ELSE IF input.kind = "Key" /\ input.code = trigger[1] /\ input.value = 1
    THEN Some([trigger |-> trigger[1], fingers |-> fingers])
    ELSE start_info

\* start_info after the four calls of test_start_swipe.
start_info_of(c, input) ==
    test_start_swipe(
        test_start_swipe(
            test_start_swipe(
                test_start_swipe(None, c.swipe_2, "Two", input),
                c.swipe_3, "Three", input),
            c.swipe_4, "Four", input),
        c.swipe_5, "Five", input)

\* on_input_normal with the session bound to a path of the registry that
\* need not be the one the event came from.
on_input_normal_any_path(c, source, source_path, sk, start_info, st, devs, o) ==
    IF start_info # None
    THEN propagate(start_swiping(CHOOSE q \in DOMAIN devs : TRUE, source, sk,
                                 start_info[1].trigger, start_info[1].fingers, c.grab, o),
                   st, devs, <<Line("trace", "Started swipe")>>)
    ELSE unchanged(st, source, devs, sk, <<>>)

\* The arm State::Normal of on_input_event, start_info being what the four
\* tests left.
on_input_normal(c, source, source_path, sk, start_info, st, devs, o) ==
    IF start_info # None
    THEN propagate(start_swiping(source_path, source, sk, start_info[1].trigger,
                                 start_info[1].fingers, c.grab, o),
                   st, devs, <<Line("trace", "Started swipe")>>)
    ELSE unchanged(st, source, devs, sk, <<>>)

\* on_input_swiping without the comparison with the trigger of the session:
\* the release of any key stops it.
on_input_swiping_any_release(c, source, source_path, sk, input, st, devs, o) ==
    IF input.kind = "RelAxis" /\ input.code = RelativeAxisType.REL_X
    THEN propagate(update(st, source, sk, input.value, 0, c.x_mult, c.y_mult, o),
                   st, devs, <<>>)
    ELSE IF input.kind = "RelAxis" /\ input.code = RelativeAxisType.REL_Y
    THEN propagate(update(st, source, sk, 0, input.value, c.x_mult, c.y_mult, o),
                   st, devs, <<>>)
    ELSE IF input.kind = "Key" /\ input.value = 0
    THEN propagate(stop(st, source_path, source, sk, c.grab, o),
                   st, devs, <<Line("trace", "Stopped swipe")>>)
    ELSE unchanged(st, source, devs, sk, <<>>)

\* The arm State::Swiping of on_input_event.
on_input_swiping(c, source, source_path, sk, input, st, devs, o) ==
    IF input.kind = "RelAxis" /\ input.code = RelativeAxisType.REL_X
    THEN propagate(update(st, source, sk, input.value, 0, c.x_mult, c.y_mult, o),
                   st, devs, <<>>)
    ELSE IF input.kind = "RelAxis" /\ input.code = RelativeAxisType.REL_Y
    THEN propagate(update(st, source, sk, 0, input.value, c.x_mult, c.y_mult, o),
                   st, devs, <<>>)
    ELSE IF input.kind = "Key" /\ input.code = st.trigger /\ input.value = 0
    THEN propagate(stop(st, source_path, source, sk, c.grab, o),
                   st, devs, <<Line("trace", "Stopped swipe")>>)
    ELSE unchanged(st, source, devs, sk, <<>>)

\* on_input_event with the triggers tested in both states: a press of a
\* trigger starts a session over the one that is open.
on_input_event_restart(c, source, source_path, sk, input, st, devs, o) ==
    IF ~IsSwiping(st) \/ start_info_of(c, input) # None
    THEN on_input_normal(c, source, source_path, sk, start_info_of(c, input), st, devs, o)
    ELSE on_input_swiping(c, source, source_path, sk, input, st, devs, o)

on_input_event(c, source, source_path, sk, input, st, devs, o) ==
    IF ~IsSwiping(st)
    THEN on_input_normal(c, source, source_path, sk, start_info_of(c, input), st, devs, o)
    ELSE on_input_swiping(c, source, source_path, sk, input, st, devs, o)

(***************************************************************************)
(* The inputs of a turn.                                                   *)
(***************************************************************************)
\* Key codes: the triggers of the configurations and one key none of them uses.
KeyCodes == <<30, 275, 276, 277, 278>>
\* 1 is a press, 0 a release, 2 an autorepeat.
KeyValues == <<0, 1, 2>>
Deltas == <<3>>

\* The events a source delivers: keys and deltas are lists.
InputEvents(keys, deltas) ==
    {KeyInput(k, v) : k \in Range(keys), v \in Range(KeyValues)}
        \cup {RelInput(a, d) : a \in {RelativeAxisType.REL_X, RelativeAxisType.REL_Y},
                               d \in Range(deltas)}
        \cup {RelInput(RelativeAxisType.REL_WHEEL, 1), SynInput}

Added(path) == [kind |-> "Added", path |-> path]
Removed(path) == [kind |-> "Removed", path |-> path]
DeviceEvents(paths) == {Added(q) : q \in paths} \cup {Removed(q) : q \in paths}

\* The outcomes of the library calls of one turn: all succeed, or the named
\* one fails ("overflow": the build checks additions for overflow).  A turn
\* makes its calls one after the other and stops at the first that fails.
Outcome(failing) ==
    [grab_ok |-> failing # "grab", ungrab_ok |-> failing # "ungrab",
     emit_ok |-> failing # "emit", open_ok |-> failing # "open",
     stream_ok |-> failing # "stream", wrap |-> failing # "overflow"]
Outcomes(failures) == {Outcome(failures[i]) : i \in 1..Len(failures)}
InputFailures == <<"none", "grab", "ungrab", "emit", "overflow">>
DeviceFailures == <<"none", "open", "stream", "emit">>

\* A failing outcome is a different input of the turn only when the turn
\* makes the call that fails (a turn that makes no call has no outcome to
\* choose): r is the turn's result under the outcomes o, r0 its result when
\* every call succeeds.
Matters(o, r, r0) == o = Outcome("none") \/ r # r0

IsMotion(input) ==
    input.kind = "RelAxis" /\ input.code \in {RelativeAxisType.REL_X, RelativeAxisType.REL_Y}

(***************************************************************************)
(* Init: simulate has enumerated the sink's dev nodes and is at the top of *)
(* its loop for the first time.                                            *)
(***************************************************************************)
InitAt(configs, startups) ==
    /\ cfg \in configs
    /\ state = Normal
    /\ devices = <<>>
    /\ device_events = <<>>
    /\ chan_open = TRUE
    /\ sink = SinkInit
    /\ status = "running"
    /\ calls = <<>>
    /\ log = <<>>
    /\ hist = HistInit
    /\ last = None
    /\ mux = MuxInit
    /\ startup \in startups

\* simulate has just been called.
InitWith(configs) == InitAt(configs, {StartupDone})

Init == InitWith(Configs)

(***************************************************************************)
(* The hotplug watcher (main.rs): it sends Added and Removed notifications *)
(* for paths under the input directory; the channel is unbounded, the      *)
(* model lets MaxQueue of them wait.                                       *)
(***************************************************************************)
SendFrom(paths) ==
    /\ status = "running"
    /\ chan_open
    /\ Len(device_events) < MaxQueue
    /\ \E event \in DeviceEvents(Range(paths)) :
        device_events' = Append(device_events, event)
    /\ UNCHANGED <<cfg, state, devices, chan_open, sink, status, calls, log, hist, last, mux, startup>>

WatcherSend == SendFrom(Paths)

\* The last sender is dropped.
WatcherClose ==
    /\ status = "running"
    /\ chan_open
    /\ chan_open' = FALSE
    /\ UNCHANGED <<cfg, state, devices, device_events, sink, status, calls, log, hist, last, mux, startup>>

(***************************************************************************)
(* One turn of the loop of simulate.                                       *)
(***************************************************************************)
\* What a turn leaves behind: r is the result of its handler under the
\* outcomes o, r0 the result when every call succeeds, devs the registry
\* with the source handed back.
Turn(o, r, r0, devs) ==
    /\ Matters(o, r, r0)
    /\ state' = r.state
    /\ devices' = devs
    /\ sink' = r.sink
    /\ calls' = r.calls
    /\ log' = r.log
    /\ status' = IF r.ok THEN "running" ELSE IF r.panic THEN "panic" ELSE "error"

HandBack(devs, source_path, source) == [devs EXCEPT ![source_path] = source]

\* select! takes the branch of device_events.recv(), which yields event.
DeviceTurn(o, r, r0) ==
    /\ Turn(o, r, r0, r.devices)
    /\ hist' = IF IsSwiping(r.state) THEN hist ELSE HistInit

HandleDeviceEvent(event) ==
    \E o \in Outcomes(DeviceFailures) :
        DeviceTurn(o,
                   on_device_event(event, sink, sink_dev_nodes, cfg.input_allow,
                                   cfg.input_deny, devices, state, o),
                   on_device_event(event, sink, sink_dev_nodes, cfg.input_allow,
                                   cfg.input_deny, devices, state, Outcome("none")))

\* The record of the notifications handled: the one handled last and, for
\* each path, the kind of the one handled last for it.
Noted(l, event) ==
    Some([event |-> event,
          kinds |-> [q \in Range(Paths) |->
                        IF q = event.path THEN event.kind
                        ELSE IF l = None THEN "none" ELSE l[1].kinds[q]]])

\* seen tells whether the specification records the notification in last.
HotplugWith(seen) ==
    /\ status = "running"
    /\ device_events # <<>>
    /\ HandleDeviceEvent(Head(device_events))
    /\ device_events' = Tail(device_events)
    /\ last' = IF seen THEN Noted(last, Head(device_events)) ELSE last
    /\ UNCHANGED <<cfg, chan_open, mux, startup>>

HotplugTurn == HotplugWith(FALSE)

\* The watcher sends a notification into the empty channel and the next
\* turn receives it.
NotifyFrom(paths) ==
    /\ status = "running"
    /\ chan_open
    /\ device_events = <<>>
    /\ \E event \in DeviceEvents(Range(paths)) : HandleDeviceEvent(event)
    /\ UNCHANGED <<cfg, device_events, chan_open, last, mux, startup>>

NotifyTurn == NotifyFrom(Paths)

\* The sums of the deltas of the session, kept beside the accumulators.
Moved(h, input) ==
    [moves |-> h.moves + 1,
     dx |-> BigAdd(h.dx, IF input.code = RelativeAxisType.REL_X THEN input.value ELSE 0),
     dy |-> BigAdd(h.dy, IF input.code = RelativeAxisType.REL_Y THEN input.value ELSE 0)]

InputStep(o, r, r0, source_path, input) ==
    /\ Turn(o, r, r0, HandBack(r.devices, source_path, r.source))
    /\ hist' = IF ~IsSwiping(r.state) \/ ~IsSwiping(state) THEN HistInit
               ELSE IF IsMotion(input) /\ ~r.panic THEN Moved(hist, input)
               ELSE hist

\* select! takes the branch of input_events.next(), which yields input, read
\* from the source registered under source_path.
HandleInputEvent(source_path, input) ==
    \E o \in Outcomes(InputFailures) :
        InputStep(o,
                  on_input_event(cfg, devices[source_path], source_path, sink, input,
                                 state, devices, o),
                  on_input_event(cfg, devices[source_path], source_path, sink, input,
                                 state, devices, Outcome("none")),
                  source_path, input)

\* The events come from the lists keys and deltas; seen tells whether the
\* specification records the event in last.
InputWith(keys, deltas, seen) ==
    /\ status = "running"
    /\ \E source_path \in DOMAIN devices, input \in InputEvents(keys, deltas) :
        /\ (IsSwiping(state) /\ IsMotion(input)) => hist.moves < MaxMoves
        /\ HandleInputEvent(source_path, input)
        /\ last' = IF seen THEN Some([source_path |-> source_path, input |-> input])
                   ELSE last
    /\ UNCHANGED <<cfg, device_events, chan_open, mux, startup>>

InputFrom(keys, deltas) == InputWith(keys, deltas, FALSE)

InputTurn == InputFrom(KeyCodes, Deltas)

\* ReadErrorTurn with the failing source dropped from the registry.
ReadErrorUntrack ==
    /\ status = "running"
    /\ \E source_path \in DOMAIN devices :
        /\ devices' = Without(devices, source_path)
        /\ calls' = <<>>
        /\ log' = <<Line("warn", "Failed to read events")>>
    /\ UNCHANGED <<cfg, state, device_events, chan_open, sink, status, hist, last, mux, startup>>

\* select! takes the branch of input_events.next(), which yields a read error.
ReadErrorTurn ==
    /\ status = "running"
    /\ \E source_path \in DOMAIN devices :
        /\ calls' = <<>>
        /\ log' = <<Line("warn", "Failed to read events")>>
    /\ UNCHANGED <<cfg, state, devices, device_events, chan_open, sink, status, hist, last, mux, startup>>

\* Both branches of select! are disabled (recv() yields None, the set of
\* futures is empty) and it has no else branch: it panics.
SelectPanic ==
    /\ status = "running"
    /\ ~chan_open
    /\ device_events = <<>>
    /\ DOMAIN devices = {}
    /\ status' = "panic"
    /\ calls' = <<>>
    /\ log' = <<Line("fatal", "all branches are disabled and there is no else branch")>>
    /\ UNCHANGED <<cfg, state, devices, device_events, chan_open, sink, hist, last, mux, startup>>

Next ==
    \/ NotifyTurn
    \/ InputTurn
    \/ ReadErrorTurn

Spec == Init /\ [][Next]_vars

(***************************************************************************)
(* The arithmetic of a session: one source, one trigger and deltas that    *)
(* reach the ends of the ranges of i32 and of the significand of f32.      *)
(***************************************************************************)
NumDeltas == <<-3, 1, 16777217, I32Max>>
NumKeys == <<277>>

NotifyNum == NotifyFrom(<<Event3>>)
InputNum == InputFrom(NumKeys, NumDeltas)

InitNum == InitWith(Configs)

NextNum ==
    \/ NotifyNum
    \/ InputNum

SpecNum == InitNum /\ [][NextNum]_vars

(***************************************************************************)
(* The hotplug channel as a queue: the watcher sends into it and can go    *)
(* away, the loop receives from it; recv() yields the notifications that   *)
(* wait, also after the last sender is gone, and None after them.          *)
(***************************************************************************)
ChanPaths == <<Event3, Event4>>

WatcherChan == SendFrom(ChanPaths)
InputChan == InputFrom(NumKeys, Deltas)

InitChan == InitWith(Configs)

NextChan ==
    \/ WatcherChan
    \/ WatcherClose
    \/ HotplugTurn
    \/ InputChan
    \/ ReadErrorTurn
    \/ SelectPanic

SpecChan == InitChan /\ [][NextChan]_vars

(***************************************************************************)
(* The turns with the event read from the source on record: two sources    *)
(* and the configuration in which one key is the trigger of two finger     *)
(* counts, another key is the trigger of a third and grabbing is enabled;  *)
(* the first key of the list is the trigger of nothing.  A read can fail.  *)
(***************************************************************************)
SeenPaths == <<Event3, Event4>>
SeenKeys == <<275, 276, 277>>

NotifySeen == NotifyFrom(SeenPaths)
InputSeen == InputWith(SeenKeys, Deltas, TRUE)

InitSeen == InitWith({CfgShared})

NextSeen ==
    \/ NotifySeen
    \/ InputSeen
    \/ ReadErrorTurn

SpecSeen == InitSeen /\ [][NextSeen]_vars

(***************************************************************************)
(* A turn of the loop in steps: the futures of next_event() are collected  *)
(* from the registry, select! polls its two branches, and the branch that  *)
(* completes runs its handler.  A source is ready when it has something to *)
(* read; what it is, an event or a read error, is seen when it is read.    *)
(* The turn ends where the body of the loop ends: input_events goes out of *)
(* scope there and the futures still pending in it are dropped.            *)
(***************************************************************************)
WaitPaths == <<Event3, Event4>>
WaitKeys == <<277>>

\* The end of the body of the loop, after num events were handled in the
\* turn that ends; ready are the sources that still have something to read.
EndOfTurn(ready, num) ==
    [pc |-> "top", waits |-> {}, event |-> None, ready |-> ready, handled |-> num]

WatcherWait == SendFrom(WaitPaths)

\* A tracked source gets something to read.
SourceReady ==
    /\ status = "running"
    /\ \E source_path \in DOMAIN devices \ mux.ready :
        mux' = [mux EXCEPT !.ready = @ \cup {source_path}]
    /\ UNCHANGED <<cfg, state, devices, device_events, chan_open, sink, status, calls, log,
                   hist, last, startup>>

\* Collect with input_events built once, before the loop, and kept: the
\* turn polls the futures it finds.
CollectOnce ==
    /\ status = "running"
    /\ mux.pc = "top"
    /\ mux' = [mux EXCEPT !.pc = "select", !.handled = 0]
    /\ UNCHANGED <<cfg, state, devices, device_events, chan_open, sink, status, calls, log,
                   hist, last, startup>>

\* input_events is built: one future of next_event() for each entry of the
\* registry.
Collect ==
    /\ status = "running"
    /\ mux.pc = "top"
    /\ mux' = [mux EXCEPT !.pc = "select", !.waits = DOMAIN devices, !.handled = 0]
    /\ UNCHANGED <<cfg, state, devices, device_events, chan_open, sink, status, calls, log,
                   hist, last, startup>>

\* select! completes the branch of device_events.recv() with a notification.
RecvDevice ==
    /\ status = "running"
    /\ mux.pc = "select"
    /\ device_events # <<>>
    /\ device_events' = Tail(device_events)
    /\ mux' = [mux EXCEPT !.pc = "device", !.event = Some(Head(device_events))]
    /\ UNCHANGED <<cfg, state, devices, chan_open, sink, status, calls, log, hist, last, startup>>

\* DropInputEvents without the drop: the futures stay pending while the
\* handler of the notification runs.
DropInputEventsKeep ==
    /\ status = "running"
    /\ mux.pc = "device"
    /\ mux' = [mux EXCEPT !.pc = "handle"]
    /\ UNCHANGED <<cfg, state, devices, device_events, chan_open, sink, status, calls, log,
                   hist, last, startup>>

\* drop(input_events), the first statement of the branch.
DropInputEvents ==
    /\ status = "running"
    /\ mux.pc = "device"
    /\ mux' = [mux EXCEPT !.pc = "handle", !.waits = {}]
    /\ UNCHANGED <<cfg, state, devices, device_events, chan_open, sink, status, calls, log,
                   hist, last, startup>>

\* HandleDevice with the channel drained: when another notification waits
\* it is taken in the same turn.
HandleDeviceDrain ==
    /\ status = "running"
    /\ mux.pc = "handle"
    /\ HandleDeviceEvent(mux.event[1])
    /\ IF device_events = <<>>
       THEN /\ mux' = EndOfTurn(mux.ready \cap DOMAIN devices', mux.handled + 1)
            /\ UNCHANGED device_events
       ELSE /\ mux' = [mux EXCEPT !.event = Some(Head(device_events)),
                                  !.ready = @ \cap DOMAIN devices',
                                  !.handled = @ + 1]
            /\ device_events' = Tail(device_events)
    /\ UNCHANGED <<cfg, chan_open, last, startup>>

\* on_device_event runs on the notification received; a source that leaves
\* the registry has nothing to read any more.
HandleDevice ==
    /\ status = "running"
    /\ mux.pc = "handle"
    /\ HandleDeviceEvent(mux.event[1])
    /\ mux' = EndOfTurn(mux.ready \cap DOMAIN devices', mux.handled + 1)
    /\ UNCHANGED <<cfg, device_events, chan_open, last, startup>>

\* select! completes the branch of input_events.next() with an event of a
\* source whose future was pending and had something to read; the map's
\* order of iteration, which the futures are polled in, is not specified.
NextInput ==
    /\ status = "running"
    /\ mux.pc = "select"
    /\ \E source_path \in mux.waits \cap mux.ready, input \in InputEvents(WaitKeys, <<>>) :
        /\ HandleInputEvent(source_path, input)
        /\ mux' = EndOfTurn(mux.ready \ {source_path}, mux.handled + 1)
    /\ UNCHANGED <<cfg, device_events, chan_open, last, startup>>

\* The same branch completes with a read error: it is logged and the turn
\* ends with `continue`.
ReadFail ==
    /\ status = "running"
    /\ mux.pc = "select"
    /\ \E source_path \in mux.waits \cap mux.ready :
        mux' = EndOfTurn(mux.ready \ {source_path}, mux.handled)
    /\ calls' = <<>>
    /\ log' = <<Line("warn", "Failed to read events")>>
    /\ UNCHANGED <<cfg, state, devices, device_events, chan_open, sink, status, hist, last, startup>>

InitWait == InitWith({CfgGrab})

NextWait ==
    \/ WatcherWait
    \/ SourceReady
    \/ Collect
    \/ RecvDevice
    \/ DropInputEvents
    \/ HandleDevice
    \/ NextInput
    \/ ReadFail

SpecWait == InitWait /\ [][NextWait]_vars

(***************************************************************************)
(* The same turns with the scheduling the loop has.  The loop is one task  *)
(* that runs whenever it can: it collects, and when a branch of select!    *)
(* has completed it runs the branch to its end.  select! polls its         *)
(* branches starting from one chosen at random, so a branch that is ready  *)
(* turn after turn is taken sooner or later.  Within the input branch      *)
(* nothing of the kind holds: FuturesUnordered polls the futures in the    *)
(* order they were pushed in, which is the map's order of iteration, and   *)
(* yields the first that is ready.  The watcher and the sources owe        *)
(* nothing.                                                                *)
(***************************************************************************)
InputBranch == NextInput \/ ReadFail

FairLoop ==
    /\ WF_vars(Collect)
    /\ WF_vars(DropInputEvents)
    /\ WF_vars(HandleDevice)
    /\ SF_vars(RecvDevice)
    /\ SF_vars(InputBranch)

SpecLive == InitWait /\ [][NextWait]_vars /\ FairLoop

(***************************************************************************)
(* The notifications on record: the watcher sends Added and Removed into   *)
(* the channel and the loop receives them in turn.  The configuration is   *)
(* the default one; two of the paths are admitted when they open and the   *)
(* third, the node of the synthetic device, is rejected.                   *)
(***************************************************************************)
HotPaths == <<Event3, Event4, Event9>>

WatcherHot == SendFrom(HotPaths)
HotplugHot == HotplugWith(TRUE)
InputHot == InputFrom(WaitKeys, Deltas)

InitHot == InitWith({CfgGrab})

NextHot ==
    \/ WatcherHot
    \/ HotplugHot
    \/ InputHot

SpecHot == InitHot /\ [][NextHot]_vars

(***************************************************************************)
(* main from its top: the entries under the input directory are enqueued,  *)
(* the watcher is set up, the synthetic device is created and simulate is  *)
(* called.  Until create_trackpad has returned there is no synthetic       *)
(* device; sink holds what create_trackpad will return, and nothing reads  *)
(* it before.                                                              *)
(***************************************************************************)
\* The entries the input directory may hold when main starts, and the paths
\* the watcher reports.
BootPaths == <<Event3, Event4>>

\* The top of main: the channel is empty and no entry has been enumerated.
StartupInit(dir) == [pc |-> "read_dir", dir |-> dir, sent |-> {}, origins |-> <<>>]

\* The notifications of the watcher that wait in the channel.
FromWatcher(origins) == {i \in DOMAIN origins : origins[i] = "watcher"}

\* One iteration of the loop over read_dir, which yields the entries in an
\* order of its own.
EnqueueEntry ==
    /\ status = "running"
    /\ startup.pc = "read_dir"
    /\ \E path \in startup.dir \ startup.sent :
        /\ device_events' = Append(device_events, Added(path))
        /\ startup' = [startup EXCEPT !.sent = @ \cup {path},
                                      !.origins = Append(@, "read_dir")]
    /\ UNCHANGED <<cfg, state, devices, chan_open, sink, status, calls, log, hist, last, mux>>

\* read_dir is exhausted: the watcher is created and started.
StartWatcher ==
    /\ status = "running"
    /\ startup.pc = "read_dir"
    /\ startup.sent = startup.dir
    /\ startup' = [startup EXCEPT !.pc = "watching"]
    /\ UNCHANGED <<cfg, state, devices, device_events, chan_open, sink, status, calls, log,
                   hist, last, mux>>

\* WatcherBoot with the watcher set up before the entries are enumerated.
WatcherBootEarly ==
    /\ status = "running"
    /\ chan_open
    /\ Cardinality(FromWatcher(startup.origins)) < MaxQueue
    /\ \E event \in DeviceEvents(Range(BootPaths)) :
        device_events' = Append(device_events, event)
    /\ startup' = [startup EXCEPT !.origins = Append(@, "watcher")]
    /\ UNCHANGED <<cfg, state, devices, chan_open, sink, status, calls, log, hist, last, mux>>

\* The callback of the watcher sends a notification; MaxQueue of them wait.
WatcherBoot ==
    /\ status = "running"
    /\ chan_open
    /\ startup.pc # "read_dir"
    /\ Cardinality(FromWatcher(startup.origins)) < MaxQueue
    /\ \E event \in DeviceEvents(Range(BootPaths)) :
        device_events' = Append(device_events, event)
    /\ startup' = [startup EXCEPT !.origins = Append(@, "watcher")]
    /\ UNCHANGED <<cfg, state, devices, chan_open, sink, status, calls, log, hist, last, mux>>

\* create_trackpad returns the synthetic device; main waits, logs its nodes
\* and calls simulate.
CreateSink ==
    /\ status = "running"
    /\ startup.pc = "watching"
    /\ startup' = [startup EXCEPT !.pc = "simulate"]
    /\ UNCHANGED <<cfg, state, devices, device_events, chan_open, sink, status, calls, log,
                   hist, last, mux>>

\* A `?` of main before the loop returns the error: read_dir or one of its
\* entries, the watcher, or the creation of the synthetic device failed.
StartupFails ==
    /\ status = "running"
    /\ startup.pc \in {"read_dir", "watching"}
    /\ status' = "error"
    /\ UNCHANGED <<cfg, state, devices, device_events, chan_open, sink, calls, log, hist,
                   last, mux, startup>>

\* A turn of the loop that receives a notification.
HotplugBoot ==
    /\ status = "running"
    /\ startup.pc = "simulate"
    /\ device_events # <<>>
    /\ HandleDeviceEvent(Head(device_events))
    /\ device_events' = Tail(device_events)
    /\ startup' = [startup EXCEPT !.origins = Tail(@)]
    /\ UNCHANGED <<cfg, chan_open, last, mux>>

InputBoot == InputFrom(WaitKeys, Deltas)

InitBoot == InitAt({CfgGrab}, {StartupInit(dir) : dir \in SUBSET Range(BootPaths)})

NextBoot ==
    \/ EnqueueEntry
    \/ StartWatcher
    \/ WatcherBoot
    \/ CreateSink
    \/ StartupFails
    \/ HotplugBoot
    \/ InputBoot

SpecBoot == InitBoot /\ [][NextBoot]_vars

(***************************************************************************)
(* What a turn is seen to have done.                                       *)
(***************************************************************************)
LastCall(cs) == cs[Len(cs)]

\* The turn just taken ended with a successful emission.
Emitted == calls # <<>> /\ LastCall(calls).op = "emit" /\ LastCall(calls).ok

\* The tracking ID a batch leaves in each slot, -2 in the slots it does not
\* assign (no batch writes -2).
Touched(events) ==
    write_events([SinkInit EXCEPT !.tracking = [i \in Slots |-> -2]], events).tracking

\* The positions a batch gives to the slots it selects.
PositionsOf(events) ==
    {<<events[i + 1].value, events[i + 2].value>> :
        i \in {j \in 1..(Len(events) - 2) :
                  /\ events[j].code = ABS_MT_SLOT
                  /\ events[j + 1].code = ABS_MT_POSITION_X
                  /\ events[j + 2].code = ABS_MT_POSITION_Y}}

(***************************************************************************)
(* C1.  A start gives tracking ID i to slot i for exactly the slots        *)
(* 0..f-1 of the finger count f, and a stop sets exactly those slots to    *)
(* -1, in every cycle whatever the cycles before it did: after a start the *)
(* device holds ID i in the slots below f and -1 in the others, after a    *)
(* stop -1 in every slot.                                                  *)
(***************************************************************************)
C1_TrackingIds ==
    [][/\ (~IsSwiping(state) /\ IsSwiping(state')) =>
            /\ Emitted'
            /\ Touched(LastCall(calls').events) =
                    [i \in Slots |-> IF i < count(state'.fingers) THEN i ELSE -2]
            /\ sink'.tracking =
                    [i \in Slots |-> IF i < count(state'.fingers) THEN i ELSE -1]
       /\ (IsSwiping(state) /\ ~IsSwiping(state')) =>
            /\ Emitted'
            /\ Touched(LastCall(calls').events) =
                    [i \in Slots |-> IF i < count(state.fingers) THEN -1 ELSE -2]
            /\ sink'.tracking = [i \in Slots |-> -1]
      ]_vars

\* C1: a five-finger gesture has been started and stopped: the stop batch
\* just emitted releases all five slots.
C1_Witness ==
    /\ status = "running"
    /\ ~IsSwiping(state)
    /\ Emitted
    /\ Touched(LastCall(calls).events) = [i \in Slots |-> -1]
    /\ sink.keys[BTN_TOUCH] = 1

(***************************************************************************)
(* C2, as the specification states it.  After every update of a session    *)
(* the emitted position is the product of the multiplier and the sum of    *)
(* the deltas of the session, converted as the code converts (to f32,      *)
(* multiplied, truncated toward zero), on each axis.                       *)
(***************************************************************************)
ClaimedPosition(sum, mult) == F32ToI32(MulF32(BigToF32(sum), mult))

C2_AsStated ==
    (status = "running" /\ IsSwiping(state) /\ hist.moves > 0 /\ Emitted) =>
        PositionsOf(LastCall(calls).events) =
            {<<ClaimedPosition(hist.dx, cfg.x_mult), ClaimedPosition(hist.dy, cfg.y_mult)>>}

(***************************************************************************)
(* C3.  A turn that handles Removed(path) while the machine is Swiping and *)
(* path is the session's source makes one call, the emission of the stop   *)
(* batch of the session, and no ungrab on any device, also when grabbing   *)
(* is enabled; when the emission succeeds the state is Normal and the      *)
(* device shows the batch.                                                 *)
(***************************************************************************)
C3_RemovedSource ==
    [][\A path \in Range(Paths) :
        (/\ status = "running"
         /\ IsSwiping(state)
         /\ path = state.input_path
         /\ path \in DOMAIN devices
         /\ HandleDeviceEvent(Removed(path))) =>
            /\ calls' \in {<<Emit(stop_events(state.fingers), ok)>> : ok \in BOOLEAN}
            /\ \A i \in DOMAIN calls' : calls'[i].op # "ungrab"
            /\ path \notin DOMAIN devices'
            /\ Emitted' =>
                /\ state' = Normal
                /\ status' = "running"
                /\ sink' = write_events(sink, stop_events(state.fingers))
      ]_vars

\* C3: with grabbing enabled, a session has ended in a turn whose only call
\* is the emission of a stop batch: its source was removed.
C3_Witness ==
    /\ cfg.grab
    /\ status = "running"
    /\ state = Normal
    /\ Len(calls) = 1
    /\ Emitted
    /\ log = <<Line("info", "Untracking"),
               Line("info", "Stopped swiping because the swipe device was removed")>>

(***************************************************************************)
(* C4.  A turn that handles Removed(path) while the machine is Swiping and *)
(* path is a tracked device other than the session's source leaves the     *)
(* session as it was (source path, trigger, fingers, accumulated offset),  *)
(* emits nothing, grabs and ungrabs nothing, and removes the entry of path *)
(* from the registry and no other.                                         *)
(***************************************************************************)
C4_RemovedOther ==
    [][\A path \in Range(Paths) :
        (/\ status = "running"
         /\ IsSwiping(state)
         /\ path # state.input_path
         /\ path \in DOMAIN devices
         /\ HandleDeviceEvent(Removed(path))) =>
            /\ state' = state
            /\ calls' = <<>>
            /\ sink' = sink
            /\ devices' = Without(devices, path)
            /\ status' = "running"
      ]_vars

\* C4: a session that has moved goes on after the removal of a device that
\* is not its source.
C4_Witness ==
    /\ IsSwiping(state)
    /\ hist.moves > 0
    /\ state.x # 0
    /\ log = <<Line("info", "Untracking")>>
    /\ DOMAIN devices = {state.input_path}

(***************************************************************************)
(* C5.  A path on both the allow list and the deny list is never tracked,  *)
(* and add_device rejects it.                                              *)
(***************************************************************************)
C5_DenyFirst ==
    \A path \in Range(Paths) :
        (contains(cfg.input_allow, path) /\ contains(cfg.input_deny, path)) =>
            /\ path \notin DOMAIN devices
            /\ add_device(path, sink_dev_nodes, cfg.input_allow, cfg.input_deny,
                          devices, Outcome("none"))
                   = [res |-> "Rejected", msg |-> "device is in the deny list",
                      devices |-> devices]

\* C5: the notification for a path on both lists has been handled.
C5_Witness ==
    /\ contains(cfg.input_allow, Event4)
    /\ contains(cfg.input_deny, Event4)
    /\ log = <<Line("debug", "device is in the deny list")>>

(***************************************************************************)
(* C6.  A dev node of the synthetic device is never tracked, and           *)
(* add_device rejects it whatever the allow and deny lists are.            *)
(***************************************************************************)
ListsTried == <<<<>>, <<Event9>>, <<Event3>>, <<Event3, Event9>>>>

C6_SelfExclusion ==
    \A path \in Range(Paths) :
        contains(sink_dev_nodes, path) =>
            /\ path \notin DOMAIN devices
            /\ \A input_allow \in Range(ListsTried) \cup {cfg.input_allow},
                  input_deny \in Range(ListsTried) \cup {cfg.input_deny} :
                    add_device(path, sink_dev_nodes, input_allow, input_deny,
                               devices, Outcome("none"))
                        = [res |-> "Rejected", msg |-> "this is our own virtual device",
                           devices |-> devices]

\* C6: the notification for the sink's node, which is on the allow list,
\* has been handled.
C6_Witness ==
    /\ contains(cfg.input_allow, Event9)
    /\ contains(sink_dev_nodes, Event9)
    /\ log = <<Line("debug", "this is our own virtual device")>>

(***************************************************************************)
(* C7.  add_device on a tracked path that opens is the error "already      *)
(* being tracked", an Err and not one of the rejections; the turn that     *)
(* handles Added for a tracked path logs a warning (rejections are logged  *)
(* at debug level), leaves the registry with its entry and the handle in   *)
(* it, leaves the state of the gesture and the sink, and the engine runs   *)
(* on.                                                                     *)
(***************************************************************************)
C7_AlreadyTracked ==
    [][\A path \in Range(Paths) :
        (/\ status = "running"
         /\ path \in DOMAIN devices
         /\ HandleDeviceEvent(Added(path))) =>
            /\ add_device(path, sink_dev_nodes, cfg.input_allow, cfg.input_deny,
                          devices, Outcome("none"))
                   = [res |-> "Err",
                      msg |-> "device with this file is already being tracked",
                      devices |-> devices]
            /\ Len(log') = 1
            /\ log'[1].level = "warn"
            /\ log'[1].msg \in {"device with this file is already being tracked",
                                "failed to open device file"}
            /\ devices' = devices
            /\ state' = state
            /\ sink' = sink
            /\ calls' = <<>>
            /\ status' = "running"
      ]_vars

\* C7: Added has been handled for a path that is tracked, grabbed and the
\* source of the session.
C7_Witness ==
    /\ status = "running"
    /\ IsSwiping(state)
    /\ state.input_path \in DOMAIN devices
    /\ devices[state.input_path].grabbed
    /\ log = <<Line("warn", "device with this file is already being tracked")>>

(***************************************************************************)
(* C8, as the specification states it.  After a turn in which the grab of  *)
(* the source failed, the machine is Normal, nothing was emitted and the   *)
(* engine is running.                                                      *)
(***************************************************************************)
C8_AsStated ==
    (calls # <<>> /\ calls[1].op = "grab" /\ ~calls[1].ok) =>
        /\ state = Normal
        /\ Len(calls) = 1
        /\ status = "running"

(***************************************************************************)
(* C9, as the specification states it.  After a turn in which the ungrab   *)
(* of the release of the trigger failed, the stop batch has been emitted,  *)
(* the machine is Normal and the engine is running.                        *)
(***************************************************************************)
C9_AsStated ==
    (calls # <<>> /\ calls[1].op = "ungrab" /\ ~calls[1].ok) =>
        /\ \E i \in DOMAIN calls : calls[i].op = "emit"
        /\ state = Normal
        /\ status = "running"

(***************************************************************************)
(* C10, as the specification states it.  A turn that handles the release   *)
(* of the session's trigger with grabbing enabled emits the stop batch and *)
(* then ungrabs the source.                                                *)
(***************************************************************************)
ReleaseWithGrab(source_path) ==
    /\ status = "running"
    /\ IsSwiping(state)
    /\ cfg.grab
    /\ source_path \in DOMAIN devices
    /\ HandleInputEvent(source_path, KeyInput(state.trigger, 0))

C11_AsStated ==
    [][(status = "running" /\ ~chan_open /\ device_events = <<>>) =>
            status' # "running"
      ]_vars

(***************************************************************************)
(* C12.  After a turn whose emission on the synthetic device failed, be    *)
(* it the emission of a start, of an update or of a stop (that of the      *)
(* release of the trigger or that of the removal of the source), simulate  *)
(* has returned the error: no turn follows.                                *)
(***************************************************************************)
EmitFailed == calls # <<>> /\ LastCall(calls).op = "emit" /\ ~LastCall(calls).ok

C12_EmitFailureFatal ==
    EmitFailed =>
        /\ status = "error"
        /\ ~ENABLED Next

\* C12: the emission of the stop batch failed in the turn that handled the
\* removal of the session's source.
C12_Witness ==
    /\ EmitFailed
    /\ status = "error"
    /\ log = <<Line("info", "Untracking"),
               Line("info", "Stopped swiping because the swipe device was removed"),
               Line("fatal", "failed to emit")>>

(***************************************************************************)
(* C13.  A turn in which the read of the next event of a tracked source    *)
(* fails writes a warning and nothing else: the state of the gesture, the  *)
(* registry (the source stays in it) and the synthetic device are as they  *)
(* were, no call is made, and the engine runs on, so that the next turn    *)
(* waits for the events of every source of the registry again.             *)
(***************************************************************************)
ReadWarning == <<Line("warn", "Failed to read events")>>

C13_ReadFailure ==
    /\ [][ReadErrorTurn =>
            /\ state' = state
            /\ devices' = devices
            /\ sink' = sink
            /\ calls' = <<>>
            /\ log' = ReadWarning
            /\ status' = "running"
         ]_vars
    /\ [](log = ReadWarning => (DOMAIN devices # {} /\ ENABLED InputTurn))

\* C13: a read failed during a session that has moved.
C13_Witness ==
    /\ log = ReadWarning
    /\ status = "running"
    /\ IsSwiping(state)
    /\ hist.moves > 0

(***************************************************************************)
(* C14.  A turn that handles Added(path) and in which add_device does not  *)
(* admit the path (a rejection by a filter, a path without a file name, a  *)
(* failure to open the device or to convert it into an event stream)       *)
(* leaves the registry as it was, so that the path is not tracked unless   *)
(* it was before, leaves the state of the gesture and the synthetic        *)
(* device, and the engine runs on.                                         *)
(***************************************************************************)
C14_FailedAdmission ==
    [][\A path \in Range(Paths) : \A o \in Outcomes(DeviceFailures) :
        (/\ status = "running"
         /\ add_device(path, sink_dev_nodes, cfg.input_allow, cfg.input_deny,
                       devices, o).res # "Ok"
         /\ DeviceTurn(o,
                       on_device_event(Added(path), sink, sink_dev_nodes, cfg.input_allow,
                                       cfg.input_deny, devices, state, o),
                       on_device_event(Added(path), sink, sink_dev_nodes, cfg.input_allow,
                                       cfg.input_deny, devices, state, Outcome("none")))) =>
            /\ status' = "running"
            /\ devices' = devices
            /\ state' = state
            /\ sink' = sink
            /\ calls' = <<>>
            /\ Len(log') = 1
            /\ log'[1].level \in {"debug", "warn"}
      ]_vars

\* C14: during a session, the conversion of an opened device into an event
\* stream failed; the session and its source are as they were.
C14_Witness ==
    /\ log = <<Line("warn", "failed to convert device into event stream")>>
    /\ status = "running"
    /\ IsSwiping(state)
    /\ state.input_path \in DOMAIN devices

(***************************************************************************)
(* C15.  A turn that handles, while the machine is Swiping, the press      *)
(* (value 1) of a key that is the trigger of a finger count, read from any *)
(* tracked source, leaves the session as it was (source path, trigger,     *)
(* finger count, offset), makes no call (no grab, no emission) and leaves  *)
(* the synthetic device and the registry.                                  *)
(***************************************************************************)
\* code is the trigger that the configuration gives to some finger count.
Configured(c, code) == Some(code) \in {c.swipe_2, c.swipe_3, c.swipe_4, c.swipe_5}

C15_OneSession ==
    [][\A source_path \in Range(Paths) : \A i \in 1..Len(KeyCodes) :
        (/\ status = "running"
         /\ IsSwiping(state)
         /\ source_path \in DOMAIN devices
         /\ Configured(cfg, KeyCodes[i])
         /\ HandleInputEvent(source_path, KeyInput(KeyCodes[i], 1))) =>
            /\ state' = state
            /\ calls' = <<>>
            /\ sink' = sink
            /\ devices' = devices
            /\ status' = "running"
      ]_vars

\* C15: during a session that has moved, a source that is not the session's
\* has delivered the press of a trigger that is not the session's.
C15_Witness ==
    /\ status = "running"
    /\ IsSwiping(state)
    /\ state.x # 0
    /\ calls = <<>>
    /\ last # None
    /\ last[1].source_path # state.input_path
    /\ last[1].input.kind = "Key"
    /\ last[1].input.value = 1
    /\ last[1].input.code # state.trigger
    /\ Configured(cfg, last[1].input.code)

(***************************************************************************)
(* C16.  While the engine runs and the machine is Swiping, the session's   *)
(* source path is a key of the registry.                                   *)
(***************************************************************************)
C16_SourceTracked ==
    (status = "running" /\ IsSwiping(state)) => state.input_path \in DOMAIN devices

\* C16: a session that has moved goes on, its source in the registry, after
\* another device was admitted beside it.
C16_Witness ==
    /\ status = "running"
    /\ IsSwiping(state)
    /\ hist.moves > 0
    /\ state.input_path \in DOMAIN devices
    /\ Cardinality(DOMAIN devices) = 2
    /\ log = <<Line("info", "Tracking")>>

(***************************************************************************)
(* C17.  While the engine runs, the machine is Swiping and grabbing is     *)
(* enabled, the device registered under the session's source path is       *)
(* grabbed.                                                                *)
(***************************************************************************)
C17_SourceGrabbed ==
    (status = "running" /\ IsSwiping(state) /\ cfg.grab) =>
        /\ state.input_path \in DOMAIN devices
        /\ devices[state.input_path].grabbed

\* C17: the source of the session is grabbed, and so is another device, the
\* source of an earlier session that ended on an event of a different source.
C17_Witness ==
    /\ status = "running"
    /\ IsSwiping(state)
    /\ cfg.grab
    /\ devices[state.input_path].grabbed
    /\ \E q \in DOMAIN devices : q # state.input_path /\ devices[q].grabbed

(***************************************************************************)
(* C18, as the specification states it.  A turn that handles, while the    *)
(* machine is Swiping, a relative-X or relative-Y event of a tracked       *)
(* source and whose emission does not fail adds the value of the event to  *)
(* the accumulator of its axis and leaves the other, emits one update      *)
(* batch, which gives every slot of the session the same position, and     *)
(* leaves the machine Swiping.                                             *)
(***************************************************************************)
MotionAxes == <<RelativeAxisType.REL_X, RelativeAxisType.REL_Y>>

C18_AsStated ==
    [][\A source_path \in Range(Paths) :
       \A a \in 1..Len(MotionAxes) : \A d \in 1..Len(NumDeltas) :
        (/\ status = "running"
         /\ IsSwiping(state)
         /\ source_path \in DOMAIN devices
         /\ HandleInputEvent(source_path, RelInput(MotionAxes[a], NumDeltas[d]))
         /\ ~(calls' # <<>> /\ ~LastCall(calls').ok)) =>
            /\ status' = "running"
            /\ IsSwiping(state')
            /\ Big(state'.x) =
                    BigAdd(Big(state.x), IF a = 1 THEN NumDeltas[d] ELSE 0)
            /\ Big(state'.y) =
                    BigAdd(Big(state.y), IF a = 2 THEN NumDeltas[d] ELSE 0)
            /\ calls' = <<Emit(update_events(state.fingers,
                                             Scale(state'.x, cfg.x_mult),
                                             Scale(state'.y, cfg.y_mult)), TRUE)>>
            /\ Cardinality(PositionsOf(calls'[1].events)) = 1
      ]_vars

(***************************************************************************)
(* C19.  A turn that handles an event of a tracked source outside the      *)
(* listed transitions (in Normal: anything but the press, value 1, of a    *)
(* key that is the trigger of a finger count; in Swiping: anything but a   *)
(* relative-X or relative-Y event and the release, value 0, of the         *)
(* session's trigger) leaves the state of the gesture, makes no call (no   *)
(* emission, no grab, no ungrab) and leaves the synthetic device and the   *)
(* registry.                                                               *)
(***************************************************************************)
Listed(st, c, input) ==
    IF IsSwiping(st)
    THEN \/ IsMotion(input)
         \/ input.kind = "Key" /\ input.code = st.trigger /\ input.value = 0
    ELSE input.kind = "Key" /\ input.value = 1 /\ Configured(c, input.code)

\* The turn is named by the event it has put on record.
C19_OtherPairs ==
    [][(/\ status = "running"
        /\ last' # None
        /\ last'[1].source_path \in DOMAIN devices
        /\ ~Listed(state, cfg, last'[1].input)
        /\ HandleInputEvent(last'[1].source_path, last'[1].input)) =>
            /\ state' = state
            /\ calls' = <<>>
            /\ sink' = sink
            /\ devices' = devices
            /\ status' = "running"
      ]_vars

\* C19: the machine is Normal after the autorepeat (value 2) of a trigger,
\* read from a source that an earlier session left grabbed.
C19_Witness ==
    /\ status = "running"
    /\ state = Normal
    /\ calls = <<>>
    /\ last # None
    /\ last[1].input.kind = "Key"
    /\ last[1].input.value = 2
    /\ Configured(cfg, last[1].input.code)
    /\ last[1].source_path \in DOMAIN devices
    /\ devices[last[1].source_path].grabbed

(***************************************************************************)
(* C20.  A turn that handles Added(path) for a path that is not tracked    *)
(* leaves it tracked exactly when the path is no dev node of the synthetic *)
(* device, is not on the deny list, is on the allow list unless that list  *)
(* is empty, has a file name that starts with "event", and the device      *)
(* opened and became an event stream; and every path of the registry       *)
(* passes all of these filters, in every reachable state.                  *)
(***************************************************************************)
Admissible(path, c) ==
    /\ \A i \in 1..Len(sink_dev_nodes) : sink_dev_nodes[i] # path
    /\ \A i \in 1..Len(c.input_deny) : c.input_deny[i] # path
    /\ c.input_allow = <<>> \/ \E i \in 1..Len(c.input_allow) : c.input_allow[i] = path
    /\ Len(path.name) >= 5
    /\ \A i \in 1..5 : path.name[i] = <<"e", "v", "e", "n", "t">>[i]

C20_TrackedIff ==
    /\ [](\A q \in DOMAIN devices : Admissible(q, cfg))
    /\ [][\A path \in Range(Paths) : \A o \in Outcomes(DeviceFailures) :
            (/\ status = "running"
             /\ path \notin DOMAIN devices
             /\ DeviceTurn(o,
                    on_device_event(Added(path), sink, sink_dev_nodes, cfg.input_allow,
                                    cfg.input_deny, devices, state, o),
                    on_device_event(Added(path), sink, sink_dev_nodes, cfg.input_allow,
                                    cfg.input_deny, devices, state, Outcome("none")))) =>
                /\ path \in DOMAIN devices' <=>
                        (Admissible(path, cfg) /\ o.open_ok /\ o.stream_ok)
                /\ \A q \in DOMAIN devices :
                        q \in DOMAIN devices' /\ devices'[q] = devices[q]
                /\ DOMAIN devices' \subseteq DOMAIN devices \cup {path}
         ]_vars

\* C20: with an allow list and a deny list configured, a path of the allow
\* list has been admitted.
C20_Witness ==
    /\ cfg.input_allow # <<>>
    /\ cfg.input_deny # <<>>
    /\ log = <<Line("info", "Tracking")>>
    /\ Event3 \in DOMAIN devices
    /\ Admissible(Event3, cfg)
(***************************************************************************)
(* C21.  A session ends, the state going from Swiping to Normal, only in   *)
(* a turn that handles the release (value 0) of the key recorded as the    *)
(* trigger of the session, or in a turn that handles the notification      *)
(* Removed for the path recorded in the session.  Any other turn (the      *)
(* release of another trigger, the removal of another device, an Added     *)
(* notification, a motion, a failed read) leaves the session as it is or   *)
(* moves its offset.                                                       *)
(***************************************************************************)
StoppedByRelease == <<Line("trace", "Stopped swipe")>>
StoppedByRemoval ==
    <<Line("info", "Untracking"),
      Line("info", "Stopped swiping because the swipe device was removed")>>

C21_OnlyTwoWays ==
    [][(IsSwiping(state) /\ ~IsSwiping(state')) =>
          \/ /\ log' = StoppedByRelease
             /\ last' # None
             /\ last'[1].input = KeyInput(state.trigger, 0)
             /\ last'[1].source_path \in DOMAIN devices
          \/ /\ log' = StoppedByRemoval
             /\ state.input_path \in DOMAIN devices
             /\ DOMAIN devices' = DOMAIN devices \ {state.input_path}]_vars

\* C21: a session on one of two tracked sources went through a release of
\* another trigger, a motion and a failed read, and is still open.
C21_Witness ==
    /\ IsSwiping(state)
    /\ Cardinality(DOMAIN devices) = 2
    /\ hist.moves > 0
    /\ log = <<Line("warn", "Failed to read events")>>
    /\ last # None
    /\ last[1].input.kind = "Key"
    /\ last[1].input.value = 0
    /\ last[1].input.code # state.trigger
    /\ Configured(cfg, last[1].input.code)
(***************************************************************************)
(* C22.  With --no-grab (grab is false) no turn calls grab or ungrab on a  *)
(* source and no source is ever left grabbed; the press of a configured    *)
(* trigger in Normal can still start a session, and does whenever the      *)
(* emission succeeds; the release of the session's trigger can still end   *)
(* it, and does whenever the emission succeeds.                            *)
(***************************************************************************)
OnlyEmits == \A i \in 1..Len(calls) : calls[i].op = "emit"

\* The turn that handles input from source_path can take the state to one
\* that is, or is not, a session.
CanGo(source_path, input, swiping) ==
    ENABLED (HandleInputEvent(source_path, input) /\ IsSwiping(state') = swiping
                /\ status' = "running")

C22_NoGrab ==
    /\ [](~cfg.grab =>
            /\ OnlyEmits
            /\ \A q \in DOMAIN devices : ~devices[q].grabbed
            /\ status = "running" =>
                  \A q \in DOMAIN devices :
                      IF IsSwiping(state)
                      THEN CanGo(q, KeyInput(state.trigger, 0), FALSE)
                      ELSE \A i \in 1..Len(KeyCodes) :
                              Configured(cfg, KeyCodes[i]) =>
                                  CanGo(q, KeyInput(KeyCodes[i], 1), TRUE))
    /\ [][\A q \in DOMAIN devices : \A i \in 1..Len(KeyCodes) :
            (/\ ~cfg.grab
             /\ status = "running"
             /\ status' = "running"
             /\ Configured(cfg, KeyCodes[i])
             /\ HandleInputEvent(q, KeyInput(KeyCodes[i], IF IsSwiping(state) THEN 0 ELSE 1))
             /\ IsSwiping(state) => KeyCodes[i] = state.trigger) =>
                /\ IsSwiping(state') = ~IsSwiping(state)
                /\ calls' = <<Emit(IF IsSwiping(state) THEN stop_events(state.fingers)
                                   ELSE start_events(state'.fingers), TRUE)>>]_vars

\* C22: grabbing is disabled and a session, started by a press, has just
\* been ended by the release of its trigger.
C22_Witness ==
    /\ ~cfg.grab
    /\ ~IsSwiping(state)
    /\ log = StoppedByRelease
    /\ Emitted
    /\ DOMAIN devices # {}
(***************************************************************************)
(* C23.  The turn that starts a session of n fingers emits exactly one     *)
(* batch of 4n + 2 events: for each slot i from 0 to n - 1, in increasing  *)
(* order, the selection of slot i, tracking ID i, position X 0 and         *)
(* position Y 0; then the touch button with value 1 and the tool button of *)
(* the finger count with value 1, which is double-tap for 2, triple-tap    *)
(* for 3, quad-tap for 4 and quint-tap for 5.                              *)
(***************************************************************************)
StartedLine == <<Line("trace", "Started swipe")>>

FingerCount(fingers) ==
    CASE fingers = "Two" -> 2 [] fingers = "Three" -> 3
      [] fingers = "Four" -> 4 [] fingers = "Five" -> 5

ToolButton(n) ==
    CASE n = 2 -> BTN_TOOL_DOUBLETAP [] n = 3 -> BTN_TOOL_TRIPLETAP
      [] n = 4 -> BTN_TOOL_QUADTAP [] n = 5 -> BTN_TOOL_QUINTTAP

IsStartBatch(b, n) ==
    /\ Len(b) = 4 * n + 2
    /\ \A i \in 0..(n - 1) :
        /\ b[4 * i + 1] = [type |-> "ABSOLUTE", code |-> ABS_MT_SLOT, value |-> i]
        /\ b[4 * i + 2] = [type |-> "ABSOLUTE", code |-> ABS_MT_TRACKING_ID, value |-> i]
        /\ b[4 * i + 3] = [type |-> "ABSOLUTE", code |-> ABS_MT_POSITION_X, value |-> 0]
        /\ b[4 * i + 4] = [type |-> "ABSOLUTE", code |-> ABS_MT_POSITION_Y, value |-> 0]
    /\ b[4 * n + 1] = [type |-> "KEY", code |-> BTN_TOUCH, value |-> 1]
    /\ b[4 * n + 2] = [type |-> "KEY", code |-> ToolButton(n), value |-> 1]

C23_StartBatch ==
    (IsSwiping(state) /\ log = StartedLine) =>
        /\ Emitted
        /\ Cardinality({i \in 1..Len(calls) : calls[i].op = "emit"}) = 1
        /\ IsStartBatch(LastCall(calls).events, FingerCount(state.fingers))

\* C23: a session of five fingers has just started.
C23_Witness ==
    /\ IsSwiping(state)
    /\ log = StartedLine
    /\ state.fingers = "Five"
    /\ Len(LastCall(calls).events) = 22
(***************************************************************************)
(* C24.  The session a turn opens has the offset (0, 0), whatever the      *)
(* sessions before it reached, and records the path of the source that     *)
(* delivered the press, the key that was pressed, and a finger count that  *)
(* the configuration gives that key as its trigger.                        *)
(***************************************************************************)
TriggerOf(c, fingers) ==
    CASE fingers = "Two" -> c.swipe_2 [] fingers = "Three" -> c.swipe_3
      [] fingers = "Four" -> c.swipe_4 [] fingers = "Five" -> c.swipe_5

C24_FreshSession ==
    [][(~IsSwiping(state) /\ IsSwiping(state')) =>
          /\ state'.x = 0
          /\ state'.y = 0
          /\ last' # None
          /\ last'[1].input.kind = "Key"
          /\ last'[1].input.value = 1
          /\ state'.input_path = last'[1].source_path
          /\ state'.trigger = last'[1].input.code
          /\ TriggerOf(cfg, state'.fingers) = Some(state'.trigger)]_vars

\* C24: a session has just started on one source while the other source is
\* still grabbed by the session before it.
C24_Witness ==
    /\ IsSwiping(state)
    /\ log = StartedLine
    /\ state.x = 0
    /\ state.y = 0
    /\ last # None
    /\ last[1].source_path = state.input_path
    /\ \E q \in DOMAIN devices : q # state.input_path /\ devices[q].grabbed
(***************************************************************************)
(* C30, as the specification states it.  No addition to the offset of a    *)
(* session fails, and while the loop runs the offset of the session is the *)
(* exact sum of the deltas the session received on each axis, also when    *)
(* the sum is outside the range of a signed 32-bit integer.                *)
(***************************************************************************)
C30_AsStated ==
    /\ status # "panic"
    /\ (status = "running" /\ IsSwiping(state)) =>
            /\ Big(state.x) = hist.dx
            /\ Big(state.y) = hist.dy
(***************************************************************************)
(* C29, as the specification states it.  The loop of simulate stops only   *)
(* by returning a fatal error: in every state in which it is no longer     *)
(* running, simulate has returned Err and the last line logged is the      *)
(* fatal error.  (The type of simulate has no success value to return.)    *)
(***************************************************************************)
C29_AsStated ==
    status # "running" =>
        /\ status = "error"
        /\ log # <<>>
        /\ log[Len(log)].level = "fatal"
(***************************************************************************)
(* C25.  A turn of the loop handles at most one event: one notification    *)
(* or one input event of one source, not both and not several.  A step     *)
(* takes at most one notification out of the channel; from the receipt of  *)
(* a notification to the end of its handler no input is read and nothing   *)
(* but that handler changes the state, the registry or the synthetic       *)
(* device; the event of a source is read and handled in one step.          *)
(***************************************************************************)
Effects == <<state, devices, sink, status, calls, log, hist>>

C25_OneEvent ==
    /\ [](mux.handled <= 1)
    /\ [][/\ Len(device_events') >= Len(device_events) - 1
          /\ mux.event # None =>
                \/ Effects' = Effects /\ mux'.ready \subseteq mux.ready \cup DOMAIN devices
                \/ mux.pc = "handle" /\ mux'.pc = "top" /\ mux'.handled = mux.handled + 1
          /\ (mux.pc = "select" /\ mux'.pc = "top") =>
                /\ mux'.handled = IF log' = ReadWarning /\ calls' = <<>> /\ state' = state
                                  THEN mux.handled ELSE mux.handled + 1
                /\ Cardinality(mux.ready \ mux'.ready) = 1
                /\ device_events' = device_events]_vars

\* C25: a turn has ended that handled one event while a notification was
\* waiting in the channel and a source had something to read.
C25_Witness ==
    /\ mux.pc = "top"
    /\ mux.handled = 1
    /\ device_events # <<>>
    /\ mux.ready # {}
    /\ status = "running"
(***************************************************************************)
(* C26.  In a turn whose event is a notification, the futures of           *)
(* next_event() pending on the sources (one for each entry of the registry *)
(* when the notification is received) are all dropped before the handler   *)
(* of the notification runs: no future is pending on any source when an    *)
(* entry is inserted into the registry or removed from it, and the set of  *)
(* entries changes in no other turn.                                       *)
(***************************************************************************)
C26_DroppedFirst ==
    /\ [](/\ mux.pc = "device" => mux.waits = DOMAIN devices
          /\ mux.pc = "handle" => mux.waits = {})
    /\ [][DOMAIN devices' # DOMAIN devices =>
            /\ mux.waits = {}
            /\ mux.pc = "handle"
            /\ mux.event # None
            /\ DOMAIN devices' \in {DOMAIN devices \cup {mux.event[1].path},
                                    DOMAIN devices \ {mux.event[1].path}}]_vars

\* C26: two sources were waited on, one of them with something to read,
\* when Removed for one of them was received; the futures are dropped and
\* the handler is about to remove the entry.
C26_Witness ==
    /\ mux.pc = "handle"
    /\ mux.waits = {}
    /\ Cardinality(DOMAIN devices) = 2
    /\ mux.ready # {}
    /\ mux.event # None
    /\ mux.event[1].kind = "Removed"
    /\ mux.event[1].path \in DOMAIN devices
(***************************************************************************)
(* C27.  When select! starts in a turn, the sources with a pending future  *)
(* of next_event() are exactly the keys of the registry as it is then: a   *)
(* source the turn before admitted is among them, a source the turn before *)
(* removed is not; and at the top of the loop no future of an earlier turn *)
(* is left.                                                                *)
(***************************************************************************)
C27_WaitsAreRegistry ==
    /\ mux.pc = "select" => mux.waits = DOMAIN devices
    /\ mux.pc = "top" => mux.waits = {}

\* C27: the turn before removed one of two sources; select! waits on the
\* one that is left.
C27_Witness ==
    /\ mux.pc = "select"
    /\ log = <<Line("info", "Untracking")>>
    /\ Cardinality(mux.waits) = 1
    /\ mux.waits = DOMAIN devices
(***************************************************************************)
(* C28, as the specification states it.  With select! fair between its     *)
(* branches, a tracked source that has an event to read is eventually read *)
(* or leaves the registry, whatever the other sources and the watcher      *)
(* produce meanwhile; and a notification at the head of the channel is     *)
(* eventually received, whatever the sources produce meanwhile.            *)
(***************************************************************************)
Stopped == status # "running"

C28_AsStated ==
    /\ \A q \in Range(WaitPaths) :
        (q \in mux.ready) ~> (q \notin mux.ready \/ Stopped)
    /\ \A event \in DeviceEvents(Range(WaitPaths)) :
        (device_events # <<>> /\ Head(device_events) = event)
            ~> (mux.event = Some(event) \/ Stopped)
(***************************************************************************)
(* C31.  The turn that handles Removed(path) for a path that is not in the *)
(* registry changes nothing: the registry (with the grabs of its devices), *)
(* the state (with an open session), the synthetic device and the sums of  *)
(* the session stay, no call is made and nothing is logged.  The turn that *)
(* handles Removed(path) for a path in the registry takes the entry out,   *)
(* whatever the path is and whatever the outcome of the calls of the turn. *)
(***************************************************************************)
\* The notification the step handles, when it handles one.
Handled(kind) ==
    /\ device_events # <<>>
    /\ device_events' = Tail(device_events)
    /\ Head(device_events).kind = kind

C31_RemovedUntracked ==
    [][Handled("Removed") =>
          IF Head(device_events).path \in DOMAIN devices
          THEN /\ DOMAIN devices' = DOMAIN devices \ {Head(device_events).path}
               /\ \A q \in DOMAIN devices' : devices'[q] = devices[q]
          ELSE /\ devices' = devices
               /\ state' = state
               /\ sink' = sink
               /\ hist' = hist
               /\ status' = status
               /\ calls' = <<>>
               /\ log' = <<>>]_vars

\* C31: the notification handled last is Removed for the node of the
\* synthetic device, which is never tracked; a session that was moved is
\* open on a grabbed source and the last turn did nothing.
C31_Witness ==
    /\ last # None
    /\ last[1].event = Removed(Event9)
    /\ log = <<>>
    /\ calls = <<>>
    /\ IsSwiping(state)
    /\ hist.moves > 0
    /\ devices[state.input_path].grabbed
(***************************************************************************)
(* C38.  The turn that handles Added(path) leaves the gesture machine as   *)
(* it is, whether the path is admitted, rejected or fails to open: the     *)
(* state (Normal, or the session with its path, trigger, finger count and  *)
(* offset) and the sums of the session are unchanged, nothing is written   *)
(* to the synthetic device, no grab, ungrab or emit call is made, the      *)
(* entries the registry had keep their grabs, and the loop goes on.        *)
(***************************************************************************)
C38_AddedKeepsMachine ==
    [][Handled("Added") =>
          /\ state' = state
          /\ hist' = hist
          /\ sink' = sink
          /\ calls' = <<>>
          /\ status' = "running"
          /\ \A q \in DOMAIN devices : q \in DOMAIN devices' /\ devices'[q] = devices[q]
          /\ DOMAIN devices' \subseteq DOMAIN devices \cup {Head(device_events).path}
          /\ log' \in {<<Line("info", "Tracking")>>,
                        <<Line("debug", "this is our own virtual device")>>,
                        <<Line("warn", "failed to open device file")>>,
                        <<Line("warn", "device with this file is already being tracked")>>,
                        <<Line("warn", "failed to convert device into event stream")>>}]_vars

\* C38: a second source has just been admitted while a session that was
\* moved is open on the first, which is grabbed.
C38_Witness ==
    /\ IsSwiping(state)
    /\ hist.moves > 0
    /\ log = <<Line("info", "Tracking")>>
    /\ last # None
    /\ last[1].event.kind = "Added"
    /\ last[1].event.path # state.input_path
    /\ devices[state.input_path].grabbed
    /\ ~devices[last[1].event.path].grabbed
(***************************************************************************)
(* C37.  The notifications are handled in the order the watcher sent them: *)
(* the channel grows at its end and the loop takes its head.  In every     *)
(* state each tracked path is one for which the notification handled last  *)
(* is Added, so a path is untracked from the handling of Removed for it to *)
(* the handling of a later Added for it.  The turn that handles Added for  *)
(* an untracked path that passes the filters does not fail with the        *)
(* already-tracked error, and when the device opens the path is tracked    *)
(* with a handle just opened, which is not grabbed.                        *)
(***************************************************************************)
KindOf(q) == IF last = None THEN "none" ELSE last[1].kinds[q]

NoneGrabbed == \A q \in DOMAIN devices : ~devices[q].grabbed

C33_AsStated ==
    /\ []((cfg.grab /\ status = "running" /\ ~IsSwiping(state)) => NoneGrabbed)
    /\ [][IsSwiping(state) =>
            \A i \in 1..Len(calls') :
                calls'[i].op = "ungrab" => calls'[i].path = state.input_path]_vars
(***************************************************************************)
(* C34, as the specification states it.  While the loop runs and the state *)
(* is Normal, the synthetic device shows the touch button and every tool   *)
(* button at 0 and every slot with its tracking ID released: the stop      *)
(* batch has set back everything the start batch set.                      *)
(***************************************************************************)
C34_AsStated ==
    (status = "running" /\ ~IsSwiping(state)) =>
        /\ \A k \in SinkKeys : sink.keys[k] = 0
        /\ \A i \in Slots : sink.tracking[i] = -1
(***************************************************************************)
(* C35.  When a key is the trigger of more than one finger count, the turn *)
(* that handles its press (value 1) in Normal makes at most one grab call  *)
(* and at most one emission, and when its calls succeed it opens one       *)
(* session, of the highest finger count configured with the key, with one  *)
(* start batch of that count.                                              *)
(***************************************************************************)
Highest(c, code) ==
    IF c.swipe_5 = Some(code) THEN "Five"
    ELSE IF c.swipe_4 = Some(code) THEN "Four"
    ELSE IF c.swipe_3 = Some(code) THEN "Three"
    ELSE "Two"

CountOf(op, cs) == Cardinality({i \in 1..Len(cs) : cs[i].op = op})

C35_HighestCount ==
    [][(/\ status = "running"
        /\ ~IsSwiping(state)
        /\ last' # None
        /\ last'[1].source_path \in DOMAIN devices
        /\ last'[1].input.kind = "Key"
        /\ last'[1].input.value = 1
        /\ Configured(cfg, last'[1].input.code)
        /\ HandleInputEvent(last'[1].source_path, last'[1].input)) =>
            /\ CountOf("grab", calls') <= 1
            /\ CountOf("emit", calls') <= 1
            /\ CountOf("ungrab", calls') = 0
            /\ status' = "running" =>
                /\ IsSwiping(state')
                /\ state'.fingers = Highest(cfg, last'[1].input.code)
                /\ CountOf("emit", calls') = 1
                /\ IsStartBatch(LastCall(calls').events,
                                FingerCount(Highest(cfg, last'[1].input.code)))]_vars

\* C35: the key that is the trigger of two and of five fingers was pressed
\* and a session of five fingers has just started.
C35_Witness ==
    /\ IsSwiping(state)
    /\ log = StartedLine
    /\ cfg.swipe_2 = Some(state.trigger)
    /\ cfg.swipe_5 = Some(state.trigger)
    /\ state.fingers = "Five"
    /\ CountOf("grab", calls) = 1
    /\ CountOf("emit", calls) = 1
(***************************************************************************)
(* C36.  Every event of every batch handed to emit is one the synthetic    *)
(* device declares: an absolute event of the axes slot, tracking ID,       *)
(* position X or position Y, with a slot from 0 to 4 and a tracking ID     *)
(* that is -1 or from 0 to 4, or a key event of one of the six buttons     *)
(* touch, finger, double-tap, triple-tap, quad-tap and quint-tap.          *)
(***************************************************************************)
InCapabilities(e) ==
    \/ /\ e.type = "ABSOLUTE"
       /\ e.code \in {ABS_MT_SLOT, ABS_MT_TRACKING_ID, ABS_MT_POSITION_X, ABS_MT_POSITION_Y}
       /\ e.code = ABS_MT_SLOT => e.value \in 0..4
       /\ e.code = ABS_MT_TRACKING_ID => e.value \in -1..4
    \/ /\ e.type = "KEY"
       /\ e.code \in {BTN_TOUCH, BTN_TOOL_FINGER, BTN_TOOL_DOUBLETAP, BTN_TOOL_TRIPLETAP,
                       BTN_TOOL_QUADTAP, BTN_TOOL_QUINTTAP}

C36_WithinCapabilities ==
    \A i \in 1..Len(calls) :
        calls[i].op = "emit" =>
            \A j \in 1..Len(calls[i].events) : InCapabilities(calls[i].events[j])

\* C36: a session of five fingers was started and stopped: the stop batch,
\* which uses the last slot, has just been emitted.
C36_Witness ==
    /\ log = StoppedByRelease
    /\ Emitted
    /\ Len(LastCall(calls).events) = 12
    /\ LastCall(calls).events[9] = [type |-> "ABSOLUTE", code |-> ABS_MT_SLOT, value |-> 4]
    /\ LastCall(calls).events[12] = [type |-> "KEY", code |-> BTN_TOOL_QUINTTAP, value |-> 0]
\* The notifications of the enumeration wait in the channel ahead of those of
\* the watcher, and each is an Added of an entry of the directory.
BootstrapAhead ==
    /\ Len(startup.origins) = Len(device_events)
    /\ \A i \in DOMAIN startup.origins :
        /\ startup.origins[i] = "read_dir"
            => /\ device_events[i].kind = "Added"
               /\ device_events[i].path \in startup.dir
        /\ startup.origins[i] = "watcher"
            => \A j \in DOMAIN startup.origins : i < j => startup.origins[j] = "watcher"

\* C32: at startup every entry present under the input directory is enqueued
\* as an Added notification before the watcher is started, so the
\* notifications of the enumeration are ahead of every notification of the
\* watcher in the channel; the loop takes them from the head of the channel,
\* in that order, and takes none before the synthetic device is created.
C32_BootstrapFirst ==
    /\ [](startup.pc # "read_dir" => startup.sent = startup.dir)
    /\ [](startup.pc = "read_dir" => FromWatcher(startup.origins) = {})
    /\ []BootstrapAhead
    /\ [](startup.pc # "simulate" => devices = <<>> /\ calls = <<>> /\ log = <<>>)
    /\ [][device_events' # device_events /\ Len(device_events') <= Len(device_events)
            => /\ startup.pc = "simulate"
               /\ device_events # <<>>
               /\ device_events' = Tail(device_events)]_vars

\* C32 happens: two entries were enqueued at startup, the loop has admitted
\* the first as a source, and the second waits in the channel ahead of a
\* notification of the watcher.
C32_Witness ==
    /\ status = "running"
    /\ startup.pc = "simulate"
    /\ Cardinality(startup.dir) = 2
    /\ startup.origins = <<"read_dir", "watcher">>
    /\ \E path \in startup.dir :
        /\ path \in DOMAIN devices
        /\ device_events[1] = Added(CHOOSE q \in startup.dir : q # path)
====
